---------------------------- MODULE Spec2Model ----------------------------
(***************************************************************************)
(* A model of the dvb-go client: the four endpoint calls (MonitorStop,     *)
(* GetRoute, GetLines, GetPoint), the request dispatcher doRequest, the    *)
(* response decoder handleResponse, the error classifier                   *)
(* handleErrorResponse and the APIError predicates.                        *)
(*                                                                         *)
(* Text.  A Go string or byte slice is a sequence of units.  A unit is a   *)
(* TLA+ string: one character of caller or server data ("a", "&", "\""),   *)
(* or one fixed fragment of program text that is never split ("stopid",    *)
(* "HTTP ", "true").  Concatenation is \o, the empty string is <<>>.       *)
(***************************************************************************)
EXTENDS Integers, Sequences, FiniteSets, TLC

VARIABLES client,   \* the handle built by NewClient: baseURL, userAgent, httpClient
          calls     \* one record per endpoint call running on the handle

vars == <<client, calls>>

-----------------------------------------------------------------------------
(* Bounds of the model.                                                    *)

\* number of calls running concurrently on one handle (SpecConc)
NumCalls == 2
\* largest limit value a caller passes; 0 and -1 are always tried as well
MaxLimit == 2

-----------------------------------------------------------------------------
(* strconv and fmt conversions.                                            *)

Digits == <<"0", "1", "2", "3", "4", "5", "6", "7", "8", "9">>

RECURSIVE UItoa(_)
UItoa(n) == IF n < 10 THEN <<Digits[n + 1]>>
            ELSE UItoa(n \div 10) \o <<Digits[(n % 10) + 1]>>

\* strconv.Itoa and the %d verb of fmt.Sprintf: decimal, "-" for negatives
Itoa(n) == IF n < 0 THEN <<"-">> \o UItoa(0 - n) ELSE UItoa(n)

\* strconv.FormatBool: the literal tokens "true" and "false"
FormatBool(b) == IF b THEN <<"true">> ELSE <<"false">>

\* strings.Contains on texts: needle occurs as a contiguous run of hay
Contains(hay, needle) ==
    \E i \in 1..(Len(hay) + 1) :
        /\ i + Len(needle) - 1 <= Len(hay)
        /\ \A j \in 1..Len(needle) : hay[i + j - 1] = needle[j]

\* the unit at position i, "" past the end
At(s, i) == IF i \in 1..Len(s) THEN s[i] ELSE ""

RECURSIVE IndexOf(_, _, _)
\* the first position of unit u at or after i, 0 when there is none
IndexOf(s, u, i) == IF i > Len(s) THEN 0
                    ELSE IF s[i] = u THEN i ELSE IndexOf(s, u, i + 1)

-----------------------------------------------------------------------------
(* Optional parameters: a nilable pointer per field.                       *)

NilStr  == [set |-> FALSE, v |-> <<>>]
NilBool == [set |-> FALSE, v |-> FALSE]
NilInt  == [set |-> FALSE, v |-> 0]
Ptr(x)  == [set |-> TRUE, v |-> x]

-----------------------------------------------------------------------------
(* Error values.  type is the Go dynamic type of the error; msg is         *)
(* Error() for errorString and wrapError and the Message field for         *)
(* APIError; cause is the error a wrapError unwraps to.                    *)

NoError == [type |-> "nil", msg |-> <<>>, StatusCode |-> 0,
            Code |-> <<>>, Details |-> <<>>, cause |-> "none"]

\* errors.New(text)
ErrorsNew(text) == [NoError EXCEPT !.type = "errorString", !.msg = text]

\* an error built from the text of the cause alone, which unwraps to nothing
ErrorfOpaque(prefix, cause, causeText) ==
    [NoError EXCEPT !.type = "wrapError", !.msg = <<prefix>> \o causeText]

\* fmt.Errorf(prefix + ": %w", cause)
Errorf(prefix, cause, causeText) ==
    [NoError EXCEPT !.type = "wrapError",
                    !.msg = <<prefix>> \o causeText,
                    !.cause = cause]

\* &APIError{StatusCode: status, Message: message}
NewAPIError(status, message) ==
    [NoError EXCEPT !.type = "APIError", !.StatusCode = status, !.msg = message]

-----------------------------------------------------------------------------
(* url.Values: a map from key to the list of its values.                   *)

\* url.Values{}
EmptyValues == [k \in {} |-> <<>>]

\* Values.Set(key, value): replaces whatever the key held by the one value
ValuesSet(q, key, value) ==
    [k \in (DOMAIN q) \cup {key} |-> IF k = key THEN <<value>> ELSE q[k]]

\* The query keys of the four endpoints in the byte order sort.Strings
\* gives them, which is the order Values.Encode writes them in.
SortedKeys == <<"assignedStops", "destination", "dvb", "format", "isarrival",
                "isarrivaltime", "limit", "mentzonly", "origin", "query",
                "shorttermchanges", "stopid", "stopsOnly", "time", "via">>

\* Units url.QueryEscape leaves alone: letters, digits, "-", "_", ".", "~"
\* and the fixed fragments, which consist of those.
EscapeTable == [u \in {" ", "&", "=", "+", "%", "/", "?", "#"} |->
                  CASE u = " " -> <<"+">>
                    [] u = "&" -> <<"%", "2", "6">>
                    [] u = "=" -> <<"%", "3", "D">>
                    [] u = "+" -> <<"%", "2", "B">>
                    [] u = "%" -> <<"%", "2", "5">>
                    [] u = "/" -> <<"%", "2", "F">>
                    [] u = "?" -> <<"%", "3", "F">>
                    [] u = "#" -> <<"%", "2", "3">>]

\* an encoder that writes the values as they are
QueryEscapeVerbatim(text) == text

RECURSIVE QueryEscape(_)
\* url.QueryEscape
QueryEscape(text) ==
    IF text = <<>> THEN <<>>
    ELSE (IF Head(text) \in DOMAIN EscapeTable
          THEN EscapeTable[Head(text)] ELSE <<Head(text)>>)
         \o QueryEscape(Tail(text))

RECURSIVE EncodeValues(_, _, _)
\* the inner loop of Values.Encode for one key: key=value joined by "&"
EncodeValues(key, vs, buf) ==
    IF vs = <<>> THEN buf
    ELSE EncodeValues(key, Tail(vs),
            buf \o (IF buf = <<>> THEN <<>> ELSE <<"&">>)
                \o <<key>> \o <<"=">> \o QueryEscape(Head(vs)))

RECURSIVE EncodeFrom(_, _, _)
EncodeFrom(q, i, buf) ==
    IF i > Len(SortedKeys) THEN buf
    ELSE EncodeFrom(q, i + 1,
            IF SortedKeys[i] \in DOMAIN q
            THEN EncodeValues(SortedKeys[i], q[SortedKeys[i]], buf)
            ELSE buf)

\* Values.Encode: "key=value&key=value", keys sorted, values escaped
ValuesEncode(q) == EncodeFrom(q, 1, <<>>)

\* the character each escape of EscapeTable stands for
UnescapeTable == [t \in {EscapeTable[u] : u \in DOMAIN EscapeTable \ {" "}} |->
                    CHOOSE u \in DOMAIN EscapeTable : EscapeTable[u] = t]

RECURSIVE QueryUnescape(_)
\* url.QueryUnescape: "+" is a space, "%XX" the character with that code
QueryUnescape(text) ==
    IF text = <<>> THEN <<>>
    ELSE IF Head(text) = "+" THEN <<" ">> \o QueryUnescape(Tail(text))
    ELSE IF Head(text) = "%" /\ Len(text) >= 3
            /\ SubSeq(text, 1, 3) \in DOMAIN UnescapeTable
         THEN <<UnescapeTable[SubSeq(text, 1, 3)]>>
              \o QueryUnescape(SubSeq(text, 4, Len(text)))
    ELSE <<Head(text)>> \o QueryUnescape(Tail(text))

RECURSIVE ParseQueryFrom(_, _)
\* url.ParseQuery: the pairs between "&", each split at its first "=", key
\* and value unescaped; a key maps to its values in the order they appear.
\* The keys of the result are texts.
ParseQueryFrom(raw, m) ==
    LET amp  == IndexOf(raw, "&", 1)
        pair == IF amp = 0 THEN raw ELSE SubSeq(raw, 1, amp - 1)
        rest == IF amp = 0 THEN <<>> ELSE SubSeq(raw, amp + 1, Len(raw))
        eq   == IndexOf(pair, "=", 1)
        key  == QueryUnescape(IF eq = 0 THEN pair ELSE SubSeq(pair, 1, eq - 1))
        val  == QueryUnescape(IF eq = 0 THEN <<>> ELSE SubSeq(pair, eq + 1, Len(pair)))
        m2   == IF pair = <<>> THEN m
                ELSE [k \in (DOMAIN m) \cup {key} |->
                        IF k = key
                        THEN (IF key \in DOMAIN m THEN m[key] ELSE <<>>) \o <<val>>
                        ELSE m[k]]
    IN  IF raw = <<>> THEN m ELSE ParseQueryFrom(rest, m2)

ParseQuery(raw) == ParseQueryFrom(raw, [k \in {} |-> <<>>])

-----------------------------------------------------------------------------
(* The query parameter encoders: the first half of each endpoint call.     *)
(* Each returns the validation error, or the query it built.  o.nil is a   *)
(* nil options pointer.                                                    *)

Encoded(q)  == [err |-> NoError, query |-> q]
\* a validation failure that is dropped: the call goes on with an empty query
RejectedButSent(e) == [err |-> NoError, query |-> EmptyValues]

Rejected(e) == [err |-> e, query |-> EmptyValues]

\* an encoder that sends a string that is set and empty as key=
SetStrWhenSet(q, key, p) == IF p.set THEN ValuesSet(q, key, p.v) ELSE q

\* if p != nil && *p != "" { query.Set(key, *p) }
SetStr(q, key, p) == IF p.set /\ p.v # <<>> THEN ValuesSet(q, key, p.v) ELSE q
\* an encoder that treats an explicit false like an unset parameter
SetBoolOmitsFalse(q, key, p) ==
    IF p.set /\ p.v THEN ValuesSet(q, key, FormatBool(p.v)) ELSE q

\* if p != nil { query.Set(key, strconv.FormatBool(*p)) }
SetBool(q, key, p) == IF p.set THEN ValuesSet(q, key, FormatBool(p.v)) ELSE q

\* an encoder that sends a limit of zero
SetIntFromZero(q, key, p) ==
    IF p.set /\ p.v >= 0 THEN ValuesSet(q, key, Itoa(p.v)) ELSE q

\* if p != nil && *p > 0 { query.Set(key, strconv.Itoa(*p)) }
SetInt(q, key, p) == IF p.set /\ p.v > 0 THEN ValuesSet(q, key, Itoa(p.v)) ELSE q

MonitorStopQuery(o) ==
    IF o.nil THEN Encoded(EmptyValues)
    ELSE IF o.StopId = <<>>
         THEN Rejected(ErrorsNew(<<"stopid", " can not be empty">>))
    ELSE LET q1 == ValuesSet(EmptyValues, "stopid", o.StopId)
             q2 == SetStr(q1, "format", o.Format)
             q3 == SetStr(q2, "time", o.Time)
             q4 == SetBool(q3, "isarrival", o.IsArrival)
             q5 == SetInt(q4, "limit", o.Limit)
             q6 == SetBool(q5, "shorttermchanges", o.ShortTermChanges)
             q7 == SetBool(q6, "mentzonly", o.MentzOnly)
         IN  Encoded(q7)

GetRouteQuery(o) ==
    IF o.nil THEN Encoded(EmptyValues)
    ELSE IF o.Origin = <<>>
         THEN Rejected(ErrorsNew(<<"origin", " can not be empty">>))
    ELSE IF o.Destination = <<>>
         THEN Rejected(ErrorsNew(<<"destination", " can not be empty">>))
    ELSE LET q1 == ValuesSet(EmptyValues, "origin", o.Origin)
             q2 == ValuesSet(q1, "destination", o.Destination)
             q3 == SetStr(q2, "format", o.Format)
             q4 == SetBool(q3, "isarrivaltime", o.IsArrivalTime)
             q5 == SetBool(q4, "shorttermchanges", o.ShortTermChanges)
             q6 == SetStr(q5, "time", o.Time)
             q7 == SetStr(q6, "via", o.Via)
         IN  Encoded(q7)

GetLinesQuery(o) ==
    IF o.nil THEN Encoded(EmptyValues)
    ELSE IF o.StopId = <<>>
         THEN Rejected(ErrorsNew(<<"stopid", " can not be empty">>))
    ELSE LET q1 == ValuesSet(EmptyValues, "stopid", o.StopId)
             q2 == SetStr(q1, "format", o.Format)
         IN  Encoded(q2)

GetPointQuery(o) ==
    IF o.nil THEN Encoded(EmptyValues)
    ELSE IF o.Query = <<>>
         THEN Rejected(ErrorsNew(<<"query", " can not be empty">>))
    ELSE LET q1 == ValuesSet(EmptyValues, "query", o.Query)
             q2 == SetStr(q1, "format", o.Format)
             q3 == SetInt(q2, "limit", o.Limit)
             q4 == SetBool(q3, "stopsOnly", o.StopsOnly)
             q5 == SetBool(q4, "assignedStops", o.AssignedStops)
             q6 == SetBool(q5, "dvb", o.Dvb)
         IN  Encoded(q6)

Endpoints == {"MonitorStop", "GetRoute", "GetLines", "GetPoint"}

\* endpoints that take a nil options pointer for a missing required field
EndpointQueryRejectsNil(ep, o) ==
    IF o.nil THEN Rejected(ErrorsNew(<<"options", " can not be empty">>))
    ELSE CASE ep = "MonitorStop" -> MonitorStopQuery(o)
           [] ep = "GetRoute"    -> GetRouteQuery(o)
           [] ep = "GetLines"    -> GetLinesQuery(o)
           [] ep = "GetPoint"    -> GetPointQuery(o)

\* the encoder and the fixed path of each endpoint
EndpointQuery(ep, o) ==
    CASE ep = "MonitorStop" -> MonitorStopQuery(o)
      [] ep = "GetRoute"    -> GetRouteQuery(o)
      [] ep = "GetLines"    -> GetLinesQuery(o)
      [] ep = "GetPoint"    -> GetPointQuery(o)

EndpointPath(ep) ==
    CASE ep = "MonitorStop" -> <<"/dm">>
      [] ep = "GetRoute"    -> <<"/tr/trips">>
      [] ep = "GetLines"    -> <<"/stt/lines">>
      [] ep = "GetPoint"    -> <<"/tr/pointfinder">>

\* requestOptions{Method: http.MethodGet, Path: path, Query: query}.  Query
\* is never nil here; Body is nil (HasBody; BodyErr says that json.Marshal of
\* the body fails); Headers is nil: the pairs of the map, in the order a
\* range over it yields them.
RequestOptions(ep, q) ==
    [Method |-> "GET", Path |-> EndpointPath(ep), Query |-> q, NilQuery |-> FALSE,
     HasBody |-> FALSE, BodyErr |-> FALSE, Headers |-> <<>>]

-----------------------------------------------------------------------------
(* encoding/json as the client uses it.  A body is a text; the grammar     *)
(* read here is JSON without white space, escapes, fractions and           *)
(* exponents: null, true, false, integers, "strings", [arrays], {objects}. *)
(* A parsed value is a record of one shape for every kind (t is the kind). *)

JNull       == [t |-> "null", n |-> 0, s |-> <<>>, a |-> <<>>, ks |-> <<>>]
JBool(b)    == [JNull EXCEPT !.t = "bool", !.n = IF b THEN 1 ELSE 0]
JNum(n)     == [JNull EXCEPT !.t = "num", !.n = n]
JStr(s)     == [JNull EXCEPT !.t = "str", !.s = s]
JArr(a)     == [JNull EXCEPT !.t = "arr", !.a = a]
JObj(ks, a) == [JNull EXCEPT !.t = "obj", !.ks = ks, !.a = a]

IsDigit(u) == \E d \in 1..10 : Digits[d] = u
DigitVal(u) == (CHOOSE d \in 1..10 : Digits[d] = u) - 1

ParseFail == [ok |-> FALSE, v |-> JNull, next |-> 0]
Parsed(v, next) == [ok |-> TRUE, v |-> v, next |-> next]

RECURSIVE FindQuote(_, _)
\* the position of the next quote at or after j, 0 when there is none
FindQuote(s, j) == IF j > Len(s) THEN 0
                   ELSE IF s[j] = "\"" THEN j ELSE FindQuote(s, j + 1)

\* a string literal opening at i
ParseString(s, i) ==
    LET j == FindQuote(s, i + 1)
    IN  IF At(s, i) # "\"" \/ j = 0 THEN ParseFail
        ELSE Parsed(JStr(SubSeq(s, i + 1, j - 1)), j + 1)

RECURSIVE ParseDigits(_, _, _)
ParseDigits(s, i, acc) ==
    IF IsDigit(At(s, i)) THEN ParseDigits(s, i + 1, acc * 10 + DigitVal(s[i]))
    ELSE [n |-> acc, next |-> i]

\* an integer literal at i: "-"? ( "0" | nonzero digit, digits )
ParseNumber(s, i) ==
    LET neg == At(s, i) = "-"
        j   == IF neg THEN i + 1 ELSE i
        d   == IF At(s, j) = "0" THEN [n |-> 0, next |-> j + 1]
               ELSE ParseDigits(s, j, 0)
    IN  IF ~IsDigit(At(s, j)) THEN ParseFail
        ELSE Parsed(JNum(IF neg THEN 0 - d.n ELSE d.n), d.next)

RECURSIVE ParseValue(_, _), ParseElems(_, _, _), ParseMembers(_, _, _, _)

ParseValue(s, i) ==
    LET u == At(s, i)
    IN  CASE u = "null"  -> Parsed(JNull, i + 1)
          [] u = "true"  -> Parsed(JBool(TRUE), i + 1)
          [] u = "false" -> Parsed(JBool(FALSE), i + 1)
          [] u = "\""    -> ParseString(s, i)
          [] u = "["     -> IF At(s, i + 1) = "]" THEN Parsed(JArr(<<>>), i + 2)
                            ELSE ParseElems(s, i + 1, <<>>)
          [] u = "{"     -> IF At(s, i + 1) = "}" THEN Parsed(JObj(<<>>, <<>>), i + 2)
                            ELSE ParseMembers(s, i + 1, <<>>, <<>>)
          [] u = "-" \/ IsDigit(u) -> ParseNumber(s, i)
          [] OTHER       -> ParseFail

\* the elements of an array, the first of them at i
ParseElems(s, i, acc) ==
    LET r == ParseValue(s, i)
    IN  IF ~r.ok THEN ParseFail
        ELSE IF At(s, r.next) = "," THEN ParseElems(s, r.next + 1, Append(acc, r.v))
        ELSE IF At(s, r.next) = "]" THEN Parsed(JArr(Append(acc, r.v)), r.next + 1)
        ELSE ParseFail

\* the members of an object, the first key at i
ParseMembers(s, i, ks, acc) ==
    LET k == ParseString(s, i)
        r == ParseValue(s, k.next + 1)
    IN  IF ~k.ok \/ At(s, k.next) # ":" THEN ParseFail
        ELSE IF ~r.ok THEN ParseFail
        ELSE IF At(s, r.next) = ","
             THEN ParseMembers(s, r.next + 1, Append(ks, k.v.s), Append(acc, r.v))
        ELSE IF At(s, r.next) = "}"
             THEN Parsed(JObj(Append(ks, k.v.s), Append(acc, r.v)), r.next + 1)
        ELSE ParseFail

\* the syntax check json.Unmarshal runs first: one value, nothing after it
ParseJSON(body) ==
    LET r == ParseValue(body, 1)
    IN  IF r.ok /\ r.next = Len(body) + 1 THEN r ELSE ParseFail

\* Upper-case letters of the key fragments, for the case-insensitive match
\* of an object key with a struct field
LowerTable == [u \in {"Message", "MESSAGE", "Name", "Code", "Status"} |->
                 CASE u \in {"Message", "MESSAGE"} -> "message"
                   [] u = "Name"   -> "name"
                   [] u = "Code"   -> "code"
                   [] u = "Status" -> "status"]

Lower(u) == IF u \in DOMAIN LowerTable THEN LowerTable[u] ELSE u

\* strings.EqualFold
EqualFold(x, y) ==
    Len(x) = Len(y) /\ \A i \in 1..Len(x) : Lower(x[i]) = Lower(y[i])

\* the struct field an object key selects: the exact name if there is one,
\* else the first field whose name matches case-insensitively, else none
FieldFor(key, names) ==
    IF \E i \in 1..Len(names) : <<names[i]>> = key
    THEN CHOOSE i \in 1..Len(names) : <<names[i]>> = key
    ELSE IF \E i \in 1..Len(names) : EqualFold(<<names[i]>>, key)
    THEN CHOOSE i \in 1..Len(names) :
            /\ EqualFold(<<names[i]>>, key)
            /\ \A j \in 1..(i - 1) : ~EqualFold(<<names[j]>>, key)
    ELSE 0

-----------------------------------------------------------------------------
(* Decoding into the client's structs.  A decoder returns the value it     *)
(* built and err: "none", "SyntaxError" (the body is not JSON; nothing is  *)
(* decoded) or "UnmarshalTypeError" (a value of the wrong kind; the        *)
(* decoder skips it, goes on and reports the first such error at the end). *)

Decoded(e, v) == [err |-> e, val |-> v]
FirstErr(e1, e2) == IF e1 # "none" THEN e1 ELSE e2

\* what a decoder holds once the next element of a slice is decoded to d
Appended(acc, d) == Decoded(FirstErr(acc.err, d.err), Append(acc.val, d.val))

\* what a decoder holds once the field name of its struct is decoded to d
Stored(acc, name, d) ==
    Decoded(FirstErr(acc.err, d.err), [acc.val EXCEPT ![name] = d.val])

\* a string field
DecodeString(v, cur) ==
    CASE v.t = "str"  -> Decoded("none", v.s)
      [] v.t = "null" -> Decoded("none", cur)
      [] OTHER        -> Decoded("UnmarshalTypeError", cur)

\* an int field
DecodeInt(v, cur) ==
    CASE v.t = "num"  -> Decoded("none", v.n)
      [] v.t = "null" -> Decoded("none", cur)
      [] OTHER        -> Decoded("UnmarshalTypeError", cur)

APIErrorFields == <<"status_code", "message", "code", "details">>

RECURSIVE DecodeAPIErrorMembers(_, _, _)
\* the members of an object decoded into an APIError, in body order
DecodeAPIErrorMembers(v, i, acc) ==
    IF i > Len(v.ks) THEN acc
    ELSE LET f == FieldFor(v.ks[i], APIErrorFields)
             e == acc.val
             d == IF f = 1 THEN DecodeInt(v.a[i], e.StatusCode)
                  ELSE IF f = 2 THEN DecodeString(v.a[i], e.msg)
                  ELSE IF f = 3 THEN DecodeString(v.a[i], e.Code)
                  ELSE DecodeString(v.a[i], e.Details)
             e2 == IF f = 1 THEN [e EXCEPT !.StatusCode = d.val]
                   ELSE IF f = 2 THEN [e EXCEPT !.msg = d.val]
                   ELSE IF f = 3 THEN [e EXCEPT !.Code = d.val]
                   ELSE [e EXCEPT !.Details = d.val]
         IN  IF f = 0 THEN DecodeAPIErrorMembers(v, i + 1, acc)
             ELSE DecodeAPIErrorMembers(v, i + 1,
                      Decoded(FirstErr(acc.err, d.err), e2))

\* var apiErr APIError; json.Unmarshal(body, &apiErr)
UnmarshalAPIError(body) ==
    LET p    == ParseJSON(body)
        zero == NewAPIError(0, <<>>)
    IN  IF ~p.ok THEN Decoded("SyntaxError", zero)
        ELSE CASE p.v.t = "null" -> Decoded("none", zero)
               [] p.v.t = "obj"  -> DecodeAPIErrorMembers(p.v, 1, Decoded("none", zero))
               [] OTHER          -> Decoded("UnmarshalTypeError", zero)

\* type Status struct { Code, Message string }
ZeroStatus == [Code |-> <<>>, Message |-> <<>>]

RECURSIVE DecodeStatusMembers(_, _, _)
DecodeStatusMembers(v, i, acc) ==
    IF i > Len(v.ks) THEN acc
    ELSE LET f == FieldFor(v.ks[i], <<"Code", "Message">>)
             d == IF f = 1 THEN DecodeString(v.a[i], acc.val.Code)
                  ELSE DecodeString(v.a[i], acc.val.Message)
             st == IF f = 1 THEN [acc.val EXCEPT !.Code = d.val]
                   ELSE [acc.val EXCEPT !.Message = d.val]
         IN  IF f = 0 THEN DecodeStatusMembers(v, i + 1, acc)
             ELSE DecodeStatusMembers(v, i + 1,
                      Decoded(FirstErr(acc.err, d.err), st))

DecodeStatus(v, cur) ==
    CASE v.t = "obj"  -> DecodeStatusMembers(v, 1, Decoded("none", cur))
      [] v.t = "null" -> Decoded("none", cur)
      [] OTHER        -> Decoded("UnmarshalTypeError", cur)

\* A slice: nil, or its items.  [] decodes to an empty slice that is not nil.
\* spare holds what the backing array keeps behind the items: the elements
\* an earlier, longer decoding of the same field left there (the array
\* holds zero values behind those).
NilSlice == [nil |-> TRUE, items |-> <<>>, spare |-> <<>>]
Slice(items) == [nil |-> FALSE, items |-> items, spare |-> <<>>]

\* the structs that are decoded member by member
StructNames == {"Departure", "Platform", "Diva", "Line", "Direction", "TimeTable",
                "Route", "MotChain", "PartialRoute", "Mot", "RegularStop", "Ticket"}

\* The structs the slices of the response structs hold, and the structs
\* inside those: the JSON name and the kind of each field.  A kind is
\* "string", "int", "strings" ([]string), the name of a struct, "[]" and the
\* name of a struct, or "*" and a kind (a pointer).
StructFields ==
    [T \in StructNames |->
    CASE T = "Departure" ->
            << <<"Id", "string">>, <<"DlId", "string">>, <<"LineName", "string">>,
               <<"Direction", "string">>, <<"Platform", "Platform">>,
               <<"Mot", "string">>, <<"RealTime", "string">>,
               <<"ScheduledTime", "string">>, <<"State", "string">>,
               <<"RouteChanges", "strings">>, <<"Diva", "Diva">>,
               <<"CancelReasons", "strings">>, <<"Occupancy", "string">> >>
      [] T = "Platform" -> << <<"Name", "string">>, <<"Type", "string">> >>
      [] T = "Diva" -> << <<"Number", "string">>, <<"Network", "string">> >>
      [] T = "Line" ->
            << <<"Name", "string">>, <<"Mot", "string">>, <<"Changes", "strings">>,
               <<"Directions", "[]Direction">>, <<"Diva", "Diva">> >>
      [] T = "Direction" -> << <<"Name", "string">>, <<"TimeTables", "[]TimeTable">> >>
      [] T = "TimeTable" -> << <<"Id", "string">>, <<"Name", "string">> >>
      [] T = "Route" ->
            << <<"PriceLevel", "int">>, <<"Price", "string">>,
               <<"PriceDayTicket", "string">>, <<"Net", "string">>,
               <<"Duration", "int">>, <<"Interchanges", "int">>,
               <<"MotChain", "[]MotChain">>, <<"NumberOfFareZones", "string">>,
               <<"NumberOfFareZonesDayTicket", "string">>,
               <<"FareZoneNames", "string">>, <<"FareZoneNamesDayTicket", "string">>,
               <<"FareZoneOrigin", "int">>, <<"FareZoneDestination", "int">>,
               <<"RouteId", "int">>, <<"PartialRoutes", "[]PartialRoute">>,
               <<"MapData", "strings">>, <<"Tickets", "[]Ticket">> >>
      [] T = "MotChain" ->
            << <<"DlId", "string">>, <<"StatelessId", "string">>, <<"Type", "string">>,
               <<"Name", "string">>, <<"Direction", "string">>,
               <<"Changes", "strings">>, <<"Diva", "Diva">>,
               <<"TransportationCompany", "string">>, <<"OperatorCode", "string">>,
               <<"ProductName", "string">>, <<"TrainNumber", "string">> >>
      [] T = "PartialRoute" ->
            << <<"PartialRouteId", "*int">>, <<"Duration", "int">>, <<"Mot", "Mot">>,
               <<"MapDataIndex", "*int">>, <<"Shift", "string">>,
               <<"RegularStops", "[]RegularStop">>,
               <<"ChangeoverEndangered", "*bool">>,
               <<"NextDepartureTimes", "strings">>,
               <<"PreviousDepartureTimes", "strings">> >>
      [] T = "Mot" ->
            << <<"DlId", "*string">>, <<"StatelessId", "*string">>,
               <<"Type", "string">>, <<"Name", "*string">>,
               <<"Direction", "*string">>, <<"Changes", "strings">>,
               <<"Diva", "*Diva">>, <<"TransportationCompany", "*string">>,
               <<"OperatorCode", "*string">>, <<"ProductName", "*string">>,
               <<"TrainNumber", "*string">> >>
      [] T = "RegularStop" ->
            << <<"ArrivalTime", "string">>, <<"DepartureTime", "string">>,
               <<"ArrivalRealTime", "*string">>, <<"DepartureRealTime", "*string">>,
               <<"Place", "string">>, <<"Name", "string">>, <<"Type", "string">>,
               <<"DataId", "string">>, <<"DhId", "string">>,
               <<"Platform", "Platform">>, <<"Latitude", "int">>,
               <<"Longitude", "int">>, <<"DepartureState", "*string">>,
               <<"ArrivalState", "*string">>, <<"CancelReasons", "strings">>,
               <<"ParkAndRail", "strings">>, <<"Occupancy", "string">> >>
      [] T = "Ticket" ->
            << <<"Name", "string">>, <<"PriceLevel", "int">>, <<"Price", "string">>,
               <<"NumberOfFareZones", "string">>, <<"FareZoneNames", "string">> >>]

\* the struct a slice kind holds
SliceElem == [k \in {"[]Departure", "[]Line", "[]Direction", "[]TimeTable", "[]Route",
                     "[]MotChain", "[]PartialRoute", "[]RegularStop", "[]Ticket"} |->
                CASE k = "[]Departure"    -> "Departure"
                  [] k = "[]Line"         -> "Line"
                  [] k = "[]Direction"    -> "Direction"
                  [] k = "[]TimeTable"    -> "TimeTable"
                  [] k = "[]Route"        -> "Route"
                  [] k = "[]MotChain"     -> "MotChain"
                  [] k = "[]PartialRoute" -> "PartialRoute"
                  [] k = "[]RegularStop"  -> "RegularStop"
                  [] k = "[]Ticket"       -> "Ticket"]

\* the kind a pointer kind points to
PointerBase == [k \in {"*string", "*int", "*bool", "*Diva"} |->
                  CASE k = "*string" -> "string"
                    [] k = "*int"    -> "int"
                    [] k = "*bool"   -> "bool"
                    [] k = "*Diva"   -> "Diva"]

\* the JSON names of the fields of the struct T, in the order of the struct
FieldNames ==
    [T \in StructNames |-> [j \in 1..Len(StructFields[T]) |-> StructFields[T][j][1]]]

RECURSIVE ZeroOf(_)
\* the zero value of a kind: "", 0, false, a nil pointer, a nil slice, a
\* struct of zero values
ZeroOf(kind) ==
    CASE kind = "string" -> <<>>
      [] kind = "int"    -> 0
      [] kind = "bool"   -> FALSE
      [] kind = "status" -> ZeroStatus
      [] kind \in DOMAIN PointerBase ->
            [set |-> FALSE, v |-> ZeroOf(PointerBase[kind])]
      [] kind \in StructNames ->
            LET fs == StructFields[kind]
            IN  [n \in {fs[j][1] : j \in 1..Len(fs)} |->
                   ZeroOf(fs[CHOOSE j \in 1..Len(fs) : fs[j][1] = n][2])]
      [] OTHER           -> NilSlice

\* a bool field
DecodeBool(v, cur) ==
    CASE v.t = "bool" -> Decoded("none", v.n = 1)
      [] v.t = "null" -> Decoded("none", cur)
      [] OTHER        -> Decoded("UnmarshalTypeError", cur)

RECURSIVE DecodeStrings(_, _, _, _)
\* the elements of a []string whose backing array holds back: element i is
\* decoded into what the array holds at i, "" when it holds nothing there
DecodeStrings(a, back, i, acc) ==
    IF i > Len(a) THEN acc
    ELSE DecodeStrings(a, back, i + 1,
             Appended(acc, DecodeString(a[i], IF i <= Len(back) THEN back[i]
                                               ELSE <<>>)))

RECURSIVE DecodeValue(_, _, _), DecodeStructFields(_, _, _, _)
RECURSIVE DecodeStructs(_, _, _, _, _), DecodeSlice(_, _, _)

\* the elements of a slice of the struct T (Departure, Route, Line and the
\* structs inside them) whose backing array holds back: element i is
\* decoded member by member into the T the array holds at i, a zero T when
\* the array holds none
DecodeStructs(T, a, back, i, acc) ==
    IF i > Len(a) THEN acc
    ELSE DecodeStructs(T, a, back, i + 1,
             Appended(acc, DecodeValue(T, a[i], IF i <= Len(back) THEN back[i]
                                                ELSE ZeroOf(T))))

\* the slice of the elements d holds, cut to their number: the backing
\* array keeps what it held behind them
Sliced(d, back) ==
    Decoded(d.err, [nil |-> FALSE, items |-> d.val,
                    spare |-> SubSeq(back, Len(d.val) + 1, Len(back))])

\* the pointer to the value d holds
Pointed(d) == Decoded(d.err, Ptr(d.val))

\* a decoder that takes an array without elements for a value of the wrong kind
DecodeSliceRejectsEmpty(kind, v, cur) ==
    CASE v.t = "null" -> Decoded("none", NilSlice)
      [] v.t = "arr" /\ v.a # <<>> ->
            Sliced(IF kind = "strings"
                   THEN DecodeStrings(v.a, cur.items \o cur.spare, 1,
                                      Decoded("none", <<>>))
                   ELSE DecodeStructs(SliceElem[kind], v.a, cur.items \o cur.spare, 1,
                                      Decoded("none", <<>>)),
                   cur.items \o cur.spare)
      [] OTHER        -> Decoded("UnmarshalTypeError", cur)

\* a slice field, "strings" or the slice of a struct, that holds cur: null
\* gives nil, [] a new slice without elements, and the elements of any
\* other array are decoded into the places of the backing array of cur
DecodeSlice(kind, v, cur) ==
    CASE v.t = "null" -> Decoded("none", NilSlice)
      [] v.t = "arr" /\ v.a = <<>> -> Decoded("none", Slice(<<>>))
      [] v.t = "arr" /\ v.a # <<>> ->
            Sliced(IF kind = "strings"
                   THEN DecodeStrings(v.a, cur.items \o cur.spare, 1,
                                      Decoded("none", <<>>))
                   ELSE DecodeStructs(SliceElem[kind], v.a, cur.items \o cur.spare, 1,
                                      Decoded("none", <<>>)),
                   cur.items \o cur.spare)
      [] OTHER        -> Decoded("UnmarshalTypeError", cur)

\* the members of an object decoded into the struct T, in body order; a
\* member that names no field of T is skipped
DecodeStructFields(T, v, i, acc) ==
    IF i > Len(v.ks) THEN acc
    ELSE LET fs == StructFields[T]
             f  == FieldFor(v.ks[i], FieldNames[T])
         IN  IF f = 0 THEN DecodeStructFields(T, v, i + 1, acc)
             ELSE DecodeStructFields(T, v, i + 1,
                      Stored(acc, fs[f][1],
                             DecodeValue(fs[f][2], v.a[i], acc.val[fs[f][1]])))

\* a JSON value decoded into a value of the given kind that holds cur; for
\* a pointer null gives nil and any other value a pointer to what it
\* decodes to
DecodeValue(kind, v, cur) ==
    CASE kind = "string" -> DecodeString(v, cur)
      [] kind = "int"    -> DecodeInt(v, cur)
      [] kind = "bool"   -> DecodeBool(v, cur)
      [] kind \in DOMAIN PointerBase ->
            IF v.t = "null" THEN Decoded("none", ZeroOf(kind))
            ELSE Pointed(DecodeValue(PointerBase[kind], v,
                             IF cur.set THEN cur.v ELSE ZeroOf(PointerBase[kind])))
      [] kind \in StructNames ->
            CASE v.t = "obj"  -> DecodeStructFields(kind, v, 1, Decoded("none", cur))
              [] v.t = "null" -> Decoded("none", cur)
              [] OTHER        -> Decoded("UnmarshalTypeError", cur)
      [] OTHER           -> DecodeSlice(kind, v, cur)

\* one field of a response struct, by the kind of the field
DecodeField(kind, v, cur) ==
    CASE kind = "string" -> DecodeString(v, cur)
      [] kind = "status" -> DecodeStatus(v, cur)
      [] OTHER           -> DecodeSlice(kind, v, cur)

\* The response struct of each endpoint: its JSON field names and kinds.
ResponseFields(ep) ==
    CASE ep = "MonitorStop" -> <<"Name", "Status", "Place", "ExpirationTime", "Departures">>
      [] ep = "GetRoute"    -> <<"SessionId", "Status", "Routes">>
      [] ep = "GetLines"    -> <<"Lines", "Status", "ExpirationTime">>
      [] ep = "GetPoint"    -> <<"PointStatus", "Status", "Points", "ExpirationTime">>

FieldKind(name) ==
    CASE name = "Status" -> "status"
      [] name = "Points" -> "strings"
      [] name = "Departures" -> "[]Departure"
      [] name = "Routes" -> "[]Route"
      [] name = "Lines" -> "[]Line"
      [] OTHER -> "string"

\* var resource MonitorStopResponse (and the three others): the zero value
ZeroResponse(ep) ==
    LET fs == ResponseFields(ep)
    IN  [name \in {fs[i] : i \in 1..Len(fs)} |-> ZeroOf(FieldKind(name))]

RECURSIVE DecodeResponseMembers(_, _, _, _)
DecodeResponseMembers(ep, v, i, acc) ==
    IF i > Len(v.ks) THEN acc
    ELSE LET fs   == ResponseFields(ep)
             f    == FieldFor(v.ks[i], fs)
         IN  IF f = 0 THEN DecodeResponseMembers(ep, v, i + 1, acc)
             ELSE DecodeResponseMembers(ep, v, i + 1,
                      Stored(acc, fs[f],
                             DecodeField(FieldKind(fs[f]), v.a[i], acc.val[fs[f]])))

\* the parsed body p decoded into the response struct of ep, which holds zero
DecodeResponse(ep, p, zero) ==
    IF ~p.ok THEN Decoded("SyntaxError", zero)
    ELSE CASE p.v.t = "null" -> Decoded("none", zero)
           [] p.v.t = "obj"  -> DecodeResponseMembers(ep, p.v, 1, Decoded("none", zero))
           [] OTHER          -> Decoded("UnmarshalTypeError", zero)

\* json.Unmarshal(body, target), target the response struct of ep
UnmarshalResponse(ep, body) == DecodeResponse(ep, ParseJSON(body), ZeroResponse(ep))

-----------------------------------------------------------------------------
(* Config, NewClient and the Client handle.                                *)

\* 30 * time.Second, in seconds
DefaultTimeout == 30

DefaultBaseURL   == <<"https", "://", "webapi.vvo-online.de">>
DefaultUserAgent == <<"dvb-go-client/1.0.0">>

\* Config.HTTPClient == nil
NoHTTPClient == [nil |-> TRUE, custom |-> FALSE, Timeout |-> 0]

\* a constructor that sets the timeout on a supplied transport too
NewClientTimesSupplied(config) ==
    LET baseURL   == IF config.BaseURL = <<>> THEN DefaultBaseURL ELSE config.BaseURL
        userAgent == IF config.UserAgent = <<>> THEN DefaultUserAgent ELSE config.UserAgent
        timeout   == IF config.Timeout = 0 THEN DefaultTimeout ELSE config.Timeout
        httpClient == IF config.HTTPClient.nil
                      THEN [nil |-> FALSE, custom |-> FALSE, Timeout |-> timeout]
                      ELSE [config.HTTPClient EXCEPT !.Timeout = timeout]
    IN  [baseURL |-> baseURL, httpClient |-> httpClient, userAgent |-> userAgent]

NewClient(config) ==
    LET baseURL   == IF config.BaseURL = <<>> THEN DefaultBaseURL ELSE config.BaseURL
        userAgent == IF config.UserAgent = <<>> THEN DefaultUserAgent ELSE config.UserAgent
        timeout   == IF config.Timeout = 0 THEN DefaultTimeout ELSE config.Timeout
        httpClient == IF config.HTTPClient.nil
                      THEN [nil |-> FALSE, custom |-> FALSE, Timeout |-> timeout]
                      ELSE config.HTTPClient
    IN  [baseURL |-> baseURL, httpClient |-> httpClient, userAgent |-> userAgent]

-----------------------------------------------------------------------------
(* net/url as the dispatcher uses it.  A URL text is scheme, "://", host,  *)
(* then path fragments, then "?" and the query, then "#" and the fragment. *)

\* url.Parse.  It fails on an invalid percent escape (the fragment "%zz")
\* and on a text that starts with a colon (missing protocol scheme).
ParseURL(text) ==
    LET h     == IndexOf(text, "#", 1)
        noFr  == IF h = 0 THEN text ELSE SubSeq(text, 1, h - 1)
        frag  == IF h = 0 THEN <<>> ELSE SubSeq(text, h + 1, Len(text))
        q     == IndexOf(noFr, "?", 1)
        main  == IF q = 0 THEN noFr ELSE SubSeq(noFr, 1, q - 1)
        query == IF q = 0 THEN <<>> ELSE SubSeq(noFr, q + 1, Len(noFr))
        abs   == Len(main) >= 2 /\ main[2] = "://"
        bad   == IndexOf(text, "%zz", 1) # 0 \/ At(text, 1) = ":"
    IN  [err      |-> bad,
         Scheme   |-> IF abs /\ ~bad THEN <<main[1]>> ELSE <<>>,
         Host     |-> IF abs /\ ~bad /\ Len(main) >= 3 THEN <<main[3]>> ELSE <<>>,
         Path     |-> IF bad THEN <<>>
                      ELSE IF abs THEN SubSeq(main, 4, Len(main)) ELSE main,
         RawQuery |-> IF bad THEN <<>> ELSE query,
         Fragment |-> IF bad THEN <<>> ELSE frag]

\* URL.String
URLString(u) ==
    (IF u.Scheme # <<>> \/ u.Host # <<>> THEN u.Scheme \o <<"://">> \o u.Host ELSE <<>>)
    \o u.Path
    \o (IF u.RawQuery # <<>> THEN <<"?">> \o u.RawQuery ELSE <<>>)
    \o (IF u.Fragment # <<>> THEN <<"#">> \o u.Fragment ELSE <<>>)

-----------------------------------------------------------------------------
(* The request dispatcher, up to the call of the transport.                *)

\* A context: nil, context.Background(), or one with a cancel function or a
\* deadline; err is ctx.Err().
Ctx(kind, err) == [kind |-> kind, err |-> err]
\* <-ctx.Done() is ready: the context was cancelled or its deadline passed
CtxDone(ctx) == ctx.err # "none"

NoRequest == [Method |-> "", URL |-> <<>>, Header |-> EmptyValues, HasBody |-> FALSE]

\* http.Header.Set with the canonical form of the keys the client sets
CanonicalKeys == [k \in {"user-agent", "User-Agent", "content-type", "Content-Type",
                         "accept", "Accept"} |->
                    CASE k \in {"user-agent", "User-Agent"}     -> "User-Agent"
                      [] k \in {"content-type", "Content-Type"} -> "Content-Type"
                      [] k \in {"accept", "Accept"}             -> "Accept"]

HeaderSet(h, key, value) ==
    [k \in (DOMAIN h) \cup {CanonicalKeys[key]} |->
        IF k = CanonicalKeys[key] THEN value ELSE h[k]]

Prepared(req) == [err |-> NoError, req |-> req]
NotPrepared(e) == [err |-> e, req |-> NoRequest]

\* a dispatcher that adds its query to the query of the base URL
TargetURLKeepsBaseQuery(u, opts) ==
    [u EXCEPT !.Path = opts.Path,
              !.RawQuery = IF opts.NilQuery THEN @
                           ELSE IF @ = <<>> THEN ValuesEncode(opts.Query)
                           ELSE @ \o <<"&">> \o ValuesEncode(opts.Query)]

\* a dispatcher that appends the path of the endpoint to the path of the
\* base URL
TargetURLJoinsPath(u, opts) ==
    [u EXCEPT !.Path = u.Path \o opts.Path,
              !.RawQuery = IF opts.NilQuery THEN @ ELSE ValuesEncode(opts.Query)]

\* u.Path = opts.Path; if opts.Query != nil { u.RawQuery = opts.Query.Encode() }:
\* the path of the base URL is replaced, and its query unless Query is nil;
\* the rest of it is kept
TargetURL(u, opts) ==
    [u EXCEPT !.Path = opts.Path,
              !.RawQuery = IF opts.NilQuery THEN @ ELSE ValuesEncode(opts.Query)]

RECURSIVE SetHeaders(_, _)
\* for key, value := range opts.Headers { req.Header.Set(key, value) }
SetHeaders(h, pairs) ==
    IF pairs = <<>> THEN h
    ELSE SetHeaders(HeaderSet(h, Head(pairs)[1], Head(pairs)[2]), Tail(pairs))

\* a dispatcher that sends the request although the base URL did not parse
PrepareRequestIgnoresParseError(c, ctx, opts) ==
    LET u   == ParseURL(c.baseURL)
        u2  == TargetURL(u, opts)
        h1  == HeaderSet(EmptyValues, "User-Agent", c.userAgent)
        h2  == IF opts.HasBody
               THEN HeaderSet(h1, "Content-Type", <<"application/json">>) ELSE h1
        h3  == SetHeaders(h2, opts.Headers)
    IN  IF opts.HasBody /\ opts.BodyErr
        THEN NotPrepared(Errorf("failed to marshal request body: ",
                                "json.UnsupportedTypeError", <<"unsupported type">>))
        ELSE IF ctx.kind = "nil"
        THEN NotPrepared(Errorf("failed to create request: ", "errorString",
                                <<"net/http: nil Context">>))
        ELSE Prepared([Method |-> opts.Method, URL |-> URLString(u2),
                       Header |-> h3, HasBody |-> opts.HasBody])

\* a dispatcher that sets the User-Agent after the headers of the caller
PrepareRequestUserAgentLast(c, ctx, opts) ==
    LET u   == ParseURL(c.baseURL)
        u2  == TargetURL(u, opts)
        h1  == SetHeaders(EmptyValues, opts.Headers)
        h2  == IF opts.HasBody
               THEN HeaderSet(h1, "Content-Type", <<"application/json">>) ELSE h1
        h3  == HeaderSet(h2, "User-Agent", c.userAgent)
    IN  IF u.err
        THEN NotPrepared(Errorf("invalid base URL: ", "url.Error", <<"parse error">>))
        ELSE IF opts.HasBody /\ opts.BodyErr
        THEN NotPrepared(Errorf("failed to marshal request body: ",
                                "json.UnsupportedTypeError", <<"unsupported type">>))
        ELSE IF ctx.kind = "nil"
        THEN NotPrepared(Errorf("failed to create request: ", "errorString",
                                <<"net/http: nil Context">>))
        ELSE Prepared([Method |-> opts.Method, URL |-> URLString(u2),
                       Header |-> h3, HasBody |-> opts.HasBody])

\* doRequest, lines 32..63: the URL, the body, the request and its headers:
\* User-Agent first, Content-Type if there is a body, then the headers of
\* the caller, each with Header.Set.
PrepareRequest(c, ctx, opts) ==
    LET u   == ParseURL(c.baseURL)
        u2  == TargetURL(u, opts)
        h1  == HeaderSet(EmptyValues, "User-Agent", c.userAgent)
        h2  == IF opts.HasBody
               THEN HeaderSet(h1, "Content-Type", <<"application/json">>) ELSE h1
        h3  == SetHeaders(h2, opts.Headers)
    IN  IF u.err
        THEN NotPrepared(Errorf("invalid base URL: ", "url.Error", <<"parse error">>))
        ELSE IF opts.HasBody /\ opts.BodyErr
        THEN NotPrepared(Errorf("failed to marshal request body: ",
                                "json.UnsupportedTypeError", <<"unsupported type">>))
        ELSE IF ctx.kind = "nil"
        THEN NotPrepared(Errorf("failed to create request: ", "errorString",
                                <<"net/http: nil Context">>))
        ELSE Prepared([Method |-> opts.Method, URL |-> URLString(u2),
                       Header |-> h3, HasBody |-> opts.HasBody])

-----------------------------------------------------------------------------
(* The response decoder and the error classifier.                          *)

\* A response as the transport hands it over: the status code, the bytes
\* of the body, whether reading the body fails, and the error of the read
\* that fails (a broken connection unless the read is interrupted).
Response(status, body, readErr) ==
    [StatusCode |-> status, Body |-> body, ReadErr |-> readErr,
     ReadCause |-> IF readErr THEN "io.ErrUnexpectedEOF" ELSE "none"]

\* the response whose body read is cut short by the error cause
Interrupted(resp, cause) == [resp EXCEPT !.ReadErr = TRUE, !.ReadCause = cause]

\* the text of the error io.ReadAll returns
ReadErrText(cause) ==
    CASE cause = "io.ErrUnexpectedEOF" -> <<"unexpected EOF">>
      [] cause = "Canceled"            -> <<"context canceled">>
      [] cause = "DeadlineExceeded"    -> <<"context deadline exceeded">>
      [] OTHER                         -> <<cause>>

NoResponse == Response(0, <<>>, FALSE)
\* a classifier that takes a decoded error without a message for undecodable
HandleErrorResponseGenericWhenEmpty(resp) ==
    IF resp.ReadErr
    THEN NewAPIError(resp.StatusCode,
             <<"HTTP ">> \o Itoa(resp.StatusCode) \o <<": failed to read error response">>)
    ELSE LET d == UnmarshalAPIError(resp.Body)
         IN  IF d.err # "none" \/ d.val.msg = <<>>
             THEN NewAPIError(resp.StatusCode,
                      <<"HTTP ">> \o Itoa(resp.StatusCode) \o <<": ">> \o resp.Body)
             ELSE [d.val EXCEPT !.StatusCode = resp.StatusCode]

\* a classifier that keeps the status_code of the decoded body
HandleErrorResponseKeepsBodyCode(resp) ==
    IF resp.ReadErr
    THEN NewAPIError(resp.StatusCode,
             <<"HTTP ">> \o Itoa(resp.StatusCode) \o <<": failed to read error response">>)
    ELSE LET d == UnmarshalAPIError(resp.Body)
         IN  IF d.err # "none"
             THEN NewAPIError(resp.StatusCode,
                      <<"HTTP ">> \o Itoa(resp.StatusCode) \o <<": ">> \o resp.Body)
             ELSE d.val

\* a classifier whose fallback message leaves the body out
HandleErrorResponseDropsBody(resp) ==
    IF resp.ReadErr
    THEN NewAPIError(resp.StatusCode,
             <<"HTTP ">> \o Itoa(resp.StatusCode) \o <<": failed to read error response">>)
    ELSE LET d == UnmarshalAPIError(resp.Body)
         IN  IF d.err # "none"
             THEN NewAPIError(resp.StatusCode, <<"HTTP ">> \o Itoa(resp.StatusCode))
             ELSE [d.val EXCEPT !.StatusCode = resp.StatusCode]

HandleErrorResponse(resp) ==
    IF resp.ReadErr
    THEN NewAPIError(resp.StatusCode,
             <<"HTTP ">> \o Itoa(resp.StatusCode) \o <<": failed to read error response">>)
    ELSE LET d == UnmarshalAPIError(resp.Body)
         IN  IF d.err # "none"
             THEN NewAPIError(resp.StatusCode,
                      <<"HTTP ">> \o Itoa(resp.StatusCode) \o <<": ">> \o resp.Body)
             ELSE [d.val EXCEPT !.StatusCode = resp.StatusCode]
\* a status check that lets 300 pass as a success
IsFailureStatusAbove300(status) == status < 200 \/ status > 300

\* a status check that takes 200 alone for a success
IsFailureStatusNot200(status) == status # 200

\* resp.StatusCode < 200 || resp.StatusCode >= 300
IsFailureStatus(status) == status < 200 \/ status >= 300

Handled(e, v) == [err |-> e, val |-> v]

\* if err := json.Unmarshal(body, target); err != nil { return
\* fmt.Errorf("failed to unmarshal response: %w", err) }; return nil
Unmarshalled(d) ==
    IF d.err # "none"
    THEN Handled(Errorf("failed to unmarshal response: ", d.err, <<d.err>>), d.val)
    ELSE Handled(NoError, d.val)

\* a decoder that turns a Status.Code other than Ok into an error
HandleResponseBodyChecksStatus(ep, resp) ==
    LET zero == ZeroResponse(ep)
        d    == UnmarshalResponse(ep, resp.Body)
    IN  IF IsFailureStatus(resp.StatusCode)
        THEN Handled(HandleErrorResponse(resp), zero)
        ELSE IF resp.ReadErr
        THEN Handled(Errorf("failed to read response body: ", resp.ReadCause,
                            ReadErrText(resp.ReadCause)), zero)
        ELSE IF Len(resp.Body) = 0
        THEN Handled(NoError, zero)
        ELSE IF d.err # "none"
        THEN Handled(Errorf("failed to unmarshal response: ", d.err, <<d.err>>),
                     d.val)
        ELSE IF d.val.Status.Code \notin {<<>>, <<"Ok">>}
        THEN Handled(NewAPIError(resp.StatusCode, d.val.Status.Code), d.val)
        ELSE Handled(NoError, d.val)

\* a decoder that hands an empty body to json.Unmarshal like any other
HandleResponseBodyDecodesEmpty(ep, resp) ==
    LET zero == ZeroResponse(ep)
        d    == UnmarshalResponse(ep, resp.Body)
    IN  IF IsFailureStatus(resp.StatusCode)
        THEN Handled(HandleErrorResponse(resp), zero)
        ELSE IF resp.ReadErr
        THEN Handled(Errorf("failed to read response body: ", resp.ReadCause,
                            ReadErrText(resp.ReadCause)), zero)
        ELSE IF d.err # "none"
        THEN Handled(Errorf("failed to unmarshal response: ", d.err, <<d.err>>),
                     d.val)
        ELSE Handled(NoError, d.val)

\* handleResponse(resp, &resource) for the response struct of ep: the error
\* it returns and the struct as it leaves it
HandleResponseBody(ep, resp) ==
    IF IsFailureStatus(resp.StatusCode)
    THEN Handled(HandleErrorResponse(resp), ZeroResponse(ep))
    ELSE IF resp.ReadErr
    THEN Handled(Errorf("failed to read response body: ", resp.ReadCause,
                        ReadErrText(resp.ReadCause)), ZeroResponse(ep))
    ELSE IF Len(resp.Body) = 0
    THEN Handled(NoError, ZeroResponse(ep))
    ELSE Unmarshalled(UnmarshalResponse(ep, resp.Body))
\* a decoder that closes the body at the end of the success path only
HandleResponseClosesOnSuccess(ep, resp) ==
    [out |-> HandleResponseBody(ep, resp),
     closed |-> HandleResponseBody(ep, resp).err.type = "nil"]

\* defer resp.Body.Close(): runs on every return of handleResponse
HandleResponse(ep, resp) ==
    [out |-> HandleResponseBody(ep, resp), closed |-> TRUE]

-----------------------------------------------------------------------------
(* The predicates of APIError.                                             *)

IsNotFound(e)     == e.StatusCode = 404
IsUnauthorized(e) == e.StatusCode = 401
IsForbidden(e)    == e.StatusCode = 403
IsRateLimited(e)  == e.StatusCode = 429
\* a server-error check with no upper end
IsServerErrorFrom500(e) == e.StatusCode >= 500

IsServerError(e)  == e.StatusCode >= 500 /\ e.StatusCode < 600

\* APIError.Error()
APIErrorError(e) ==
    IF e.Code # <<>>
    THEN <<"API error ">> \o Itoa(e.StatusCode) \o <<" (">> \o e.Code \o <<"): ">> \o e.msg
    ELSE <<"API error ">> \o Itoa(e.StatusCode) \o <<": ">> \o e.msg

-----------------------------------------------------------------------------
(* The inputs the model draws from.                                        *)

\* the text of a JSON string literal
Q(s) == <<"\"">> \o s \o <<"\"">>

StopIdA == <<"3", "3">>
StopIdB == <<"a", " ", "&">>
\* the characters that are special in a URL and in a query string
StopIdC == <<"+", "%", "#", "/", "?", "=">>

OptStrings == {NilStr, Ptr(<<>>), Ptr(<<"x", "=">>)}
OptBools   == {NilBool, Ptr(TRUE), Ptr(FALSE)}
OptLimits  == {NilInt, Ptr(0 - 1)} \cup {Ptr(n) : n \in 0..MaxLimit}

\* a nil options pointer, per endpoint
NilMonitorStopParams ==
    [nil |-> TRUE, StopId |-> <<>>, Format |-> NilStr, Time |-> NilStr,
     IsArrival |-> NilBool, Limit |-> NilInt, ShortTermChanges |-> NilBool,
     MentzOnly |-> NilBool]
NilGetRouteParams ==
    [nil |-> TRUE, Origin |-> <<>>, Destination |-> <<>>, Format |-> NilStr,
     IsArrivalTime |-> NilBool, ShortTermChanges |-> NilBool, Time |-> NilStr,
     Via |-> NilStr]
NilGetLinesParams == [nil |-> TRUE, StopId |-> <<>>, Format |-> NilStr]
NilGetPointParams ==
    [nil |-> TRUE, Query |-> <<>>, Format |-> NilStr, StopsOnly |-> NilBool,
     AssignedStops |-> NilBool, Limit |-> NilInt, Dvb |-> NilBool]

\* options that are not nil, every optional field unset
MonitorStopParams(stopId) ==
    [NilMonitorStopParams EXCEPT !.nil = FALSE, !.StopId = stopId]
GetRouteParams(origin, destination) ==
    [NilGetRouteParams EXCEPT !.nil = FALSE, !.Origin = origin,
                              !.Destination = destination]
GetLinesParams(stopId) ==
    [NilGetLinesParams EXCEPT !.nil = FALSE, !.StopId = stopId]
GetPointParams(query) ==
    [NilGetPointParams EXCEPT !.nil = FALSE, !.Query = query]

\* The options of the pipeline specification: a nil pointer, every
\* required field empty, and valid options.
CoreOptions(ep) ==
    CASE ep = "MonitorStop" ->
            {NilMonitorStopParams, MonitorStopParams(<<>>), MonitorStopParams(StopIdA),
             [MonitorStopParams(StopIdB) EXCEPT !.IsArrival = Ptr(FALSE),
                                                !.Limit = Ptr(MaxLimit)]}
      [] ep = "GetRoute" ->
            {NilGetRouteParams, GetRouteParams(<<>>, StopIdB), GetRouteParams(StopIdA, <<>>),
             GetRouteParams(<<>>, <<>>), GetRouteParams(StopIdA, StopIdB)}
      [] ep = "GetLines" ->
            {NilGetLinesParams, GetLinesParams(<<>>), GetLinesParams(StopIdA),
             GetLinesParams(StopIdC)}
      [] ep = "GetPoint" ->
            {NilGetPointParams, GetPointParams(<<>>),
             [GetPointParams(StopIdB) EXCEPT !.Dvb = Ptr(TRUE)]}

\* The options of the encoder specification: every field in every case.
AllOptions(ep) ==
    CASE ep = "MonitorStop" ->
            {NilMonitorStopParams} \cup
            [nil : {FALSE}, StopId : {<<>>, StopIdB}, Format : OptStrings,
             Time : OptStrings, IsArrival : OptBools, Limit : OptLimits,
             ShortTermChanges : OptBools, MentzOnly : OptBools]
      [] ep = "GetRoute" ->
            {NilGetRouteParams} \cup
            [nil : {FALSE}, Origin : {<<>>, StopIdA}, Destination : {<<>>, StopIdB},
             Format : OptStrings, IsArrivalTime : OptBools,
             ShortTermChanges : OptBools, Time : OptStrings, Via : OptStrings]
      [] ep = "GetLines" ->
            {NilGetLinesParams} \cup
            [nil : {FALSE}, StopId : {<<>>, StopIdA, StopIdB, StopIdC},
             Format : OptStrings]
      [] ep = "GetPoint" ->
            {NilGetPointParams} \cup
            [nil : {FALSE}, Query : {<<>>, StopIdB}, Format : OptStrings,
             StopsOnly : OptBools, AssignedStops : OptBools, Limit : OptLimits,
             Dvb : OptBools]

Contexts == {Ctx("nil", "none"), Ctx("Background", "none"),
             Ctx("WithCancel", "none"), Ctx("WithCancel", "Canceled"),
             Ctx("WithDeadline", "none"), Ctx("WithDeadline", "DeadlineExceeded")}

CustomHTTPClient == [nil |-> FALSE, custom |-> TRUE, Timeout |-> 0]

Configs ==
    {[BaseURL |-> <<>>, UserAgent |-> <<>>, Timeout |-> 0, HTTPClient |-> NoHTTPClient],
     [BaseURL |-> <<"http", "://", "stub.test", "/v1", "?", "k", "=", "v">>,
      UserAgent |-> <<"ua">>, Timeout |-> 5, HTTPClient |-> CustomHTTPClient],
     [BaseURL |-> <<"%zz">>, UserAgent |-> <<>>, Timeout |-> 0,
      HTTPClient |-> NoHTTPClient],
     [BaseURL |-> <<>>, UserAgent |-> <<>>, Timeout |-> 0 - 1,
      HTTPClient |-> NoHTTPClient]}

StatusCodes == {199, 200, 299, 300, 401, 403, 404, 429, 500, 599, 600}

Bodies ==
    {<<>>,
     <<"o", "o", "p", "s">>,
     Q(<<"o", "o", "p", "s">>),
     <<"null">>,
     <<"{", "}">>,
     <<"{">> \o Q(<<"message">>) \o <<":">>,
     <<"{">> \o Q(<<"message">>) \o <<":">> \o Q(<<"n", "f">>) \o <<"}">>,
     <<"{">> \o Q(<<"Message">>) \o <<":">> \o Q(<<"n", "f">>) \o <<",">>
            \o Q(<<"status_code">>) \o <<":", "4", "1", "8", ",">>
            \o Q(<<"code">>) \o <<":">> \o Q(<<"E", "1">>) \o <<"}">>,
     <<"{">> \o Q(<<"status_code">>) \o <<":">> \o Q(<<"x">>) \o <<",">>
            \o Q(<<"message">>) \o <<":">> \o Q(<<"n", "f">>) \o <<"}">>,
     <<"{">> \o Q(<<"Status">>) \o <<":", "{">> \o Q(<<"Code">>) \o <<":">>
            \o Q(<<"Ok">>) \o <<"}", ",">> \o Q(<<"Name">>) \o <<":">> \o Q(<<"H", "b", "f">>)
            \o <<",">> \o Q(<<"Departures">>) \o <<":", "[", "]", "}">>,
     <<"{">> \o Q(<<"Status">>) \o <<":", "{">> \o Q(<<"Code">>) \o <<":">>
            \o Q(<<"ServiceError">>) \o <<"}", ",">> \o Q(<<"Points">>) \o <<":", "[">>
            \o Q(<<"p">>) \o <<"]", ",">> \o Q(<<"Lines">>) \o <<":", "[", "{", "}", "]", "}">>,
     <<"{">> \o Q(<<"Name">>) \o <<":", "7", "}">>,
     <<"{">> \o Q(<<"Lines">>) \o <<":", "[", "{">> \o Q(<<"Name">>) \o <<":">>
            \o Q(<<"1", "1">>) \o <<",">> \o Q(<<"Directions">>) \o <<":", "[", "{">>
            \o Q(<<"Name">>) \o <<":">> \o Q(<<"x">>) \o <<"}", "]", "}", "]", ",">>
            \o Q(<<"Departures">>) \o <<":", "[", "{">> \o Q(<<"Id">>) \o <<":">>
            \o Q(<<"7">>) \o <<",">> \o Q(<<"Platform">>) \o <<":", "{">>
            \o Q(<<"Name">>) \o <<":">> \o Q(<<"3">>) \o <<"}", "}", "]", ",">>
            \o Q(<<"Routes">>) \o <<":", "[", "{">> \o Q(<<"PriceLevel">>)
            \o <<":", "2", ",">> \o Q(<<"PartialRoutes">>) \o <<":", "[", "{">>
            \o Q(<<"PartialRouteId">>) \o <<":", "5", ",">> \o Q(<<"Mot">>)
            \o <<":", "{">> \o Q(<<"Name">>) \o <<":">> \o Q(<<"1", "1">>)
            \o <<"}", "}", "]", "}", "]", "}">>,
     <<"{">> \o Q(<<"Lines">>) \o <<":", "[", "{">> \o Q(<<"Name">>)
            \o <<":", "7", "}", "]", ",">>
            \o Q(<<"Departures">>) \o <<":", "[", "{">> \o Q(<<"Id">>)
            \o <<":", "7", "}", "]", ",">>
            \o Q(<<"Routes">>) \o <<":", "[", "{">> \o Q(<<"PriceLevel">>) \o <<":">>
            \o Q(<<"x">>) \o <<"}", "]", "}">>,
     <<"{">> \o Q(<<"Points">>) \o <<":", "[">> \o Q(<<"o">>) \o <<",">> \o Q(<<"p">>)
            \o <<"]", ",">> \o Q(<<"Points">>) \o <<":", "[">> \o Q(<<"x">>)
            \o <<"]", ",">> \o Q(<<"Points">>) \o <<":", "[", "null", ",", "null", "]", ",">>
            \o Q(<<"Lines">>) \o <<":", "[", "{">> \o Q(<<"Name">>) \o <<":">>
            \o Q(<<"a">>) \o <<"}", "]", ",">>
            \o Q(<<"Lines">>) \o <<":", "[", "{", "}", "]", "}">>}

\* every response the transport may hand over
Responses ==
    {Response(st, b, FALSE) : st \in StatusCodes, b \in Bodies}
    \cup {Response(st, <<>>, TRUE) : st \in StatusCodes}

-----------------------------------------------------------------------------
(* The state of one endpoint call.  pc is where the call stands: "idle"    *)
(* (not made yet), "inflight" (inside httpClient.Do), "reading" (Do has    *)
(* returned a response and handleResponse waits in io.ReadAll for the      *)
(* body) or "done" (returned).  sent counts the calls of httpClient.Do;    *)
(* doneAtCall says that the context was done already when Do was entered;  *)
(* got says that Do returned a response; closed says that its body was     *)
(* closed; result and err are what the call returned.                      *)

NilResult == [nil |-> TRUE, val |-> <<>>]
ResultOf(v) == [nil |-> FALSE, val |-> v]

IdleCall ==
    [pc |-> "idle", endpoint |-> "none", options |-> NilGetLinesParams,
     ctx |-> Ctx("Background", "none"), req |-> NoRequest, resp |-> NoResponse,
     sent |-> 0, doneAtCall |-> FALSE, got |-> FALSE, closed |-> FALSE,
     result |-> NilResult, err |-> NoError]
\* one frame shared by every call on the handle
FrameShared(cs, i) == cs[1]

\* the variables of the frame of call i: options, query, opts, resp, resource
Frame(cs, i) == cs[i]

\* an endpoint that returns the zero response struct along with the error
ReturnErrorWithResult(f, e) ==
    [f EXCEPT !.pc = "done", !.result = ResultOf(<<>>), !.err = e]

\* return nil, err
ReturnError(f, e) == [f EXCEPT !.pc = "done", !.result = NilResult, !.err = e]

\* doRequest up to the call of the transport, in the frame f of its caller:
\* build the request, enter httpClient.Do.
Dispatch(f, c, ctx, opts) ==
    LET prep == PrepareRequest(c, ctx, opts)
    IN  IF prep.err.type # "nil" THEN ReturnError(f, prep.err)
        ELSE [f EXCEPT !.pc = "inflight", !.req = prep.req, !.sent = f.sent + 1,
                       !.doneAtCall = CtxDone(ctx)]

\* The endpoint call up to the call of the transport: encode and validate,
\* then doRequest.
Begin(c, ep, o, ctx) ==
    LET f0   == [IdleCall EXCEPT !.endpoint = ep, !.options = o, !.ctx = ctx]
        enc  == EndpointQuery(ep, o)
    IN  IF enc.err.type # "nil" THEN ReturnError(f0, enc.err)
        ELSE Dispatch(f0, c, ctx, RequestOptions(ep, enc.query))

\* The frame f of an endpoint once handleResponse has left h for the
\* response r: if err != nil { return nil, err }; return &resource, nil
Returned(f, r, h) ==
    [f EXCEPT !.pc = "done", !.resp = r, !.got = TRUE, !.closed = h.closed,
              !.err = h.out.err,
              !.result = IF h.out.err.type = "nil"
                         THEN ResultOf(h.out.val) ELSE NilResult]

\* an endpoint that returns what was decoded and drops the error of the decoder
FinishSwallowsError(f, r) ==
    LET h == HandleResponse(f.endpoint, r)
    IN  [f EXCEPT !.pc = "done", !.resp = r, !.got = TRUE, !.closed = h.closed,
                  !.err = NoError, !.result = ResultOf(h.out.val)]

\* The endpoint call from the end of the body read of the response r that
\* httpClient.Do returned: the rest of handleResponse, then return
\* &resource, nil or return nil, err.
Finish(f, r) == Returned(f, r, HandleResponse(f.endpoint, r))
\* a dispatcher that tries the transport once more before it gives up
FailWithRetry(f, cause) ==
    [ReturnError(f, Errorf("request failed: ", cause, <<cause>>))
        EXCEPT !.sent = f.sent + 1]

\* The endpoint call from the return of httpClient.Do with an error:
\* doRequest wraps it, the endpoint returns nil, err.
FailWith(f, cause) ==
    ReturnError(f, Errorf("request failed: ", cause, <<cause>>))

\* the transport of net/http sends http and https requests only
SchemeOK(req) == At(req.URL, 2) = "://" /\ At(req.URL, 1) \in {"http", "https"}

\* the errors httpClient.Do may return whatever the context does
TransportErrors(c, req) ==
    {"net.OpError"}
    \cup (IF c.httpClient.Timeout > 0 THEN {"http.Client.Timeout"} ELSE {})
    \cup (IF ~SchemeOK(req) THEN {"unsupported protocol scheme"} ELSE {})

\* httpClient.Do may return a response to the call in frame f: the request
\* has a scheme the transport of net/http sends, and the context was not
\* done when Do was entered (that transport tests it before it connects); a
\* context that is done later races with the response, and a transport the
\* caller supplied may look at neither
MayRespond(c, f) ==
    \/ c.httpClient.custom
    \/ SchemeOK(f.req) /\ ~f.doneAtCall

\* the errors that cut the body read short: the error of a context that is
\* done and the timeout of the client, which runs until the body is read
ReadInterrupts(c, ctx) ==
    (IF CtxDone(ctx) THEN {ctx.err} ELSE {})
    \cup (IF c.httpClient.Timeout > 0 THEN {"http.Client.Timeout"} ELSE {})

-----------------------------------------------------------------------------
(* The actions.                                                            *)

\* A caller makes endpoint call i.
Invoke(i, ep, o, ctx) ==
    /\ calls[i].pc = "idle"
    /\ calls' = [calls EXCEPT ![i] = Begin(client, ep, o, ctx)]
    /\ UNCHANGED client

\* httpClient.Do returns the response r to call i: the headers are read,
\* the body is still to come.
Respond(i, r) ==
    /\ Frame(calls, i).pc = "inflight"
    /\ MayRespond(client, Frame(calls, i))
    /\ calls' = [calls EXCEPT ![i] =
                   [Frame(calls, i) EXCEPT !.pc = "reading", !.resp = r, !.got = TRUE]]
    /\ UNCHANGED client

\* io.ReadAll of call i returns, with the body or with the error of the
\* connection; handleResponse goes on to its end and the call returns.
Handle(i) ==
    /\ calls[i].pc = "reading"
    /\ calls' = [calls EXCEPT ![i] = Finish(Frame(calls, i), calls[i].resp)]
    /\ UNCHANGED client

\* io.ReadAll of call i is cut short by the context or by the timeout of
\* the client; handleResponse returns the error of the read or, for a
\* status outside 200..299, the APIError of the body that was not read.
Interrupt(i) ==
    /\ calls[i].pc = "reading"
    /\ \E cause \in ReadInterrupts(client, calls[i].ctx) :
          calls' = [calls EXCEPT ![i] =
                      Finish(Frame(calls, i), Interrupted(calls[i].resp, cause))]
    /\ UNCHANGED client

\* The transport fails: no connection, the client's timeout, no scheme.
Fail(i) ==
    /\ calls[i].pc = "inflight"
    /\ \E cause \in TransportErrors(client, calls[i].req) :
          calls' = [calls EXCEPT ![i] = FailWith(calls[i], cause)]
    /\ UNCHANGED client

\* The caller cancels the context of call i while it is in flight or
\* reads the body.
Cancel(i) ==
    /\ calls[i].pc \in {"inflight", "reading"}
    /\ calls[i].ctx = Ctx("WithCancel", "none")
    /\ calls' = [calls EXCEPT ![i].ctx.err = "Canceled"]
    /\ UNCHANGED client

\* The deadline of the context of call i passes while it is in flight or
\* reads the body.
Expire(i) ==
    /\ calls[i].pc \in {"inflight", "reading"}
    /\ calls[i].ctx = Ctx("WithDeadline", "none")
    /\ calls' = [calls EXCEPT ![i].ctx.err = "DeadlineExceeded"]
    /\ UNCHANGED client

\* httpClient.Do returns the error of a context that is done.
Abort(i) ==
    /\ calls[i].pc = "inflight"
    /\ CtxDone(calls[i].ctx)
    /\ calls' = [calls EXCEPT ![i] = FailWith(calls[i], calls[i].ctx.err)]
    /\ UNCHANGED client

-----------------------------------------------------------------------------
(* Spec: one call on a handle, every stage of the pipeline.                *)

Init ==
    /\ client \in {NewClient(cfg) : cfg \in Configs}
    /\ calls = [i \in {1} |-> IdleCall]

Call ==
    \E ep \in Endpoints : \E o \in CoreOptions(ep) : \E ctx \in Contexts :
        Invoke(1, ep, o, ctx)

TransportResponds == \E r \in Responses : Respond(1, r)

ResponseHandled == Handle(1)

ReadInterrupted == Interrupt(1)

TransportFails == Fail(1)

CtxCancelled == Cancel(1)

CtxDeadline == Expire(1)

TransportAborts == Abort(1)

Next == \/ Call
        \/ TransportResponds
        \/ ResponseHandled
        \/ ReadInterrupted
        \/ TransportFails
        \/ CtxCancelled
        \/ CtxDeadline
        \/ TransportAborts

Spec == Init /\ [][Next]_vars

-----------------------------------------------------------------------------
(* SpecEnc: one call with every combination of the optional parameters;    *)
(* the transport answers with one of two responses or fails.               *)

EncResponses == {Response(200, <<>>, FALSE),
                 Response(404, <<"{">> \o Q(<<"message">>) \o <<":">>
                               \o Q(<<"n", "f">>) \o <<"}">>, FALSE)}

EncInit ==
    /\ client = NewClient([BaseURL |-> <<>>, UserAgent |-> <<>>, Timeout |-> 0,
                           HTTPClient |-> NoHTTPClient])
    /\ calls = [i \in {1} |-> IdleCall]

EncCall ==
    \E ep \in Endpoints : \E o \in AllOptions(ep) :
        Invoke(1, ep, o, Ctx("Background", "none"))

EncResponds == \E r \in EncResponses : Respond(1, r)

EncHandled == Handle(1)

EncInterrupted == Interrupt(1)

EncFails == Fail(1)

EncNext == EncCall \/ EncResponds \/ EncHandled \/ EncInterrupted \/ EncFails

SpecEnc == EncInit /\ [][EncNext]_vars

-----------------------------------------------------------------------------
(* SpecLive: one call on the handle of NewClient(Config{}), whose          *)
(* http.Client is the one NewClient builds; the actions of Spec, three     *)
(* responses, and the fairness the transport of net/http gives: a call     *)
(* inside httpClient.Do whose context is done does return, and so does a   *)
(* body read under a context that is done.  The code itself waits in Do    *)
(* and in io.ReadAll without looking at the context, so a supplied client  *)
(* whose transport ignores the context gives no such promise; SpecLive     *)
(* has no supplied client.                                                 *)

\* the responses of SpecLive: a success, a failure status, a broken body
LiveResponses == {Response(200, <<>>, FALSE),
                  Response(404, <<"{", "}">>, FALSE),
                  Response(500, <<>>, TRUE)}

LiveResponds == \E r \in LiveResponses : Respond(1, r)

LiveNext == \/ Call
            \/ LiveResponds
            \/ ResponseHandled
            \/ ReadInterrupted
            \/ TransportFails
            \/ CtxCancelled
            \/ CtxDeadline
            \/ TransportAborts

SpecLive ==
    /\ EncInit /\ [][LiveNext]_vars
    /\ WF_vars(TransportAborts)
    /\ WF_vars(CtxDone(calls[1].ctx) /\ (ResponseHandled \/ ReadInterrupted))

-----------------------------------------------------------------------------
(* SpecConc: NumCalls calls run concurrently on one handle against a stub  *)
(* transport that answers each request with 200 and a body naming the      *)
(* required parameter the request carried.                                 *)

\* the required parameter a call of ep sends and the string field of the
\* response struct the stub returns it in
EchoKey(ep) ==
    CASE ep = "MonitorStop" -> <<"stopid">>
      [] ep = "GetRoute"    -> <<"origin">>
      [] ep = "GetLines"    -> <<"stopid">>
      [] ep = "GetPoint"    -> <<"query">>

EchoField(ep) ==
    CASE ep = "MonitorStop" -> "Name"
      [] ep = "GetRoute"    -> "SessionId"
      [] ep = "GetLines"    -> "ExpirationTime"
      [] ep = "GetPoint"    -> "PointStatus"

\* the endpoint a request path belongs to
EndpointOf(path) == CHOOSE ep \in Endpoints : EndpointPath(ep) = path

\* the stub: parses the URL of the request and echoes the parameter
StubResponse(req) ==
    LET u  == ParseURL(req.URL)
        ep == EndpointOf(u.Path)
        q  == ParseQuery(u.RawQuery)
        v  == IF EchoKey(ep) \in DOMAIN q THEN q[EchoKey(ep)][1] ELSE <<>>
    IN  Response(200, <<"{">> \o Q(<<EchoField(ep)>>) \o <<":">> \o Q(v) \o <<"}">>, FALSE)

ConcOptions(ep) ==
    CASE ep = "MonitorStop" -> {MonitorStopParams(StopIdA), MonitorStopParams(StopIdB)}
      [] ep = "GetRoute"    -> {GetRouteParams(StopIdA, StopIdB), GetRouteParams(StopIdB, StopIdA)}
      [] ep = "GetLines"    -> {GetLinesParams(StopIdA), GetLinesParams(StopIdB)}
      [] ep = "GetPoint"    -> {GetPointParams(StopIdA), GetPointParams(StopIdB)}

ConcInit ==
    /\ client \in {NewClient(cfg) : cfg \in Configs}
    /\ calls = [i \in 1..NumCalls |-> IdleCall]

ConcCall ==
    \E i \in 1..NumCalls : \E ep \in Endpoints : \E o \in ConcOptions(ep) :
        Invoke(i, ep, o, Ctx("Background", "none"))

ConcResponds ==
    \E i \in 1..NumCalls :
        /\ calls[i].pc = "inflight"
        /\ Respond(i, StubResponse(calls[i].req))

ConcHandled == \E i \in 1..NumCalls : Handle(i)

ConcNext == ConcCall \/ ConcResponds \/ ConcHandled

SpecConc == ConcInit /\ [][ConcNext]_vars

-----------------------------------------------------------------------------
(* SpecDispatch: doRequest on its own, called with a request descriptor    *)
(* of any content: a method, a query that may be nil, a body that may fail *)
(* to marshal, and extra headers.  It returns the response as it is.       *)

\* Headers maps of the caller, each as the pairs a range over the map
\* yields; a map with two keys is there in both orders.
HeaderLists ==
    {<<>>,
     << <<"Accept", <<"a">>>> >>,
     << <<"User-Agent", <<"e", "1">>>> >>,
     << <<"user-agent", <<"e", "2">>>> >>,
     << <<"User-Agent", <<"e", "1">>>>, <<"user-agent", <<"e", "2">>>> >>,
     << <<"user-agent", <<"e", "2">>>>, <<"User-Agent", <<"e", "1">>>> >>,
     << <<"content-type", <<"t">>>>, <<"Accept", <<"a">>>> >>}

DispatchOptions ==
    {[Method |-> m, Path |-> <<"/x">>, Query |-> q.v, NilQuery |-> q.nil,
      HasBody |-> b.has, BodyErr |-> b.err, Headers |-> h] :
        m \in {"GET", "POST"},
        q \in {[nil |-> TRUE, v |-> EmptyValues], [nil |-> FALSE, v |-> EmptyValues],
               [nil |-> FALSE, v |-> ValuesSet(EmptyValues, "stopid", StopIdB)]},
        b \in {[has |-> FALSE, err |-> FALSE], [has |-> TRUE, err |-> FALSE],
               [has |-> TRUE, err |-> TRUE]},
        h \in HeaderLists}

\* A caller inside the package calls c.doRequest(ctx, opts).
DoRequest(i, opts, ctx) ==
    /\ calls[i].pc = "idle"
    /\ calls' = [calls EXCEPT ![i] =
                   Dispatch([IdleCall EXCEPT !.endpoint = "doRequest",
                                             !.options = opts, !.ctx = ctx],
                            client, ctx, opts)]
    /\ UNCHANGED client

\* httpClient.Do hands over the response r and doRequest returns it: resp, nil.
Return(i, r) ==
    /\ calls[i].pc = "inflight"
    /\ MayRespond(client, calls[i])
    /\ calls' = [calls EXCEPT ![i] = [@ EXCEPT !.pc = "done", !.resp = r,
                                               !.got = TRUE, !.result = ResultOf(r)]]
    /\ UNCHANGED client

DispatchCall ==
    \E opts \in DispatchOptions :
        \E ctx \in {Ctx("nil", "none"), Ctx("Background", "none")} :
            DoRequest(1, opts, ctx)

DispatchReturns == \E r \in EncResponses : Return(1, r)

DispatchFails == Fail(1)

DispatchNext == DispatchCall \/ DispatchReturns \/ DispatchFails

SpecDispatch == Init /\ [][DispatchNext]_vars

-----------------------------------------------------------------------------
(* The properties.                                                         *)

CallIds == DOMAIN calls

\* options were given and a required field of them is empty
RequiredEmpty(ep, o) ==
    /\ ~o.nil
    /\ CASE ep = "MonitorStop" -> o.StopId = <<>>
         [] ep = "GetRoute"    -> o.Origin = <<>> \/ o.Destination = <<>>
         [] ep = "GetLines"    -> o.StopId = <<>>
         [] ep = "GetPoint"    -> o.Query = <<>>

\* the query key of the first required field that is empty
FirstEmptyField(ep, o) ==
    CASE ep = "MonitorStop" -> "stopid"
      [] ep = "GetRoute"    -> IF o.Origin = <<>> THEN "origin" ELSE "destination"
      [] ep = "GetLines"    -> "stopid"
      [] ep = "GetPoint"    -> "query"

\* C1: a call whose options have an empty required field (StopId; Origin or
\* Destination; StopId; Query) returns a nil result and the error of the
\* validation, whose text names the field, and the transport is invoked
\* zero times: no request is built, no response obtained.  (The error is
\* the errors.New value of the endpoint; a nil options pointer is not
\* validated, see C25.)
C1_ValidationBeforeTransport ==
    \A i \in CallIds :
        LET f == calls[i]
        IN  (f.pc # "idle" /\ RequiredEmpty(f.endpoint, f.options)) =>
               /\ f.pc = "done"
               /\ f.result.nil
               /\ f.err.type = "errorString"
               /\ f.err.msg = <<FirstEmptyField(f.endpoint, f.options), " can not be empty">>
               /\ f.sent = 0
               /\ f.req = NoRequest
               /\ ~f.got

C1_Witness ==
    \E i \in CallIds :
        /\ calls[i].pc = "done"
        /\ calls[i].endpoint = "GetRoute"
        /\ calls[i].options.Origin # <<>>
        /\ calls[i].options.Destination = <<>>
        /\ calls[i].err.msg = <<"destination", " can not be empty">>
        /\ calls[i].sent = 0

\* C2: a call returns an APIError if and only if the transport delivered a
\* response whose status code is outside 200..299: every status in 200..299
\* is a success of the status check, every other one goes to the classifier.
C2_APIErrorIffNon2xx ==
    \A i \in CallIds :
        LET f == calls[i]
        IN  f.pc = "done" =>
               (f.err.type = "APIError"
                  <=> (f.got /\ f.resp.StatusCode \notin 200..299))

C2_Witness ==
    \E i \in CallIds :
        /\ calls[i].pc = "done"
        /\ calls[i].got
        /\ calls[i].resp.StatusCode = 300
        /\ calls[i].err.type = "APIError"

\* validation and request construction succeed for the call in frame f
Constructible(c, f) ==
    /\ ~RequiredEmpty(f.endpoint, f.options)
    /\ ~ParseURL(c.baseURL).err
    /\ f.ctx.kind # "nil"

\* C3: a call invokes the transport at most once, and exactly once when
\* validation and request construction succeed; a transport error, a
\* non-2xx response or a decode error causes no second attempt.
C3_ExactlyOneAttempt ==
    \A i \in CallIds :
        LET f == calls[i]
        IN  /\ f.sent <= 1
            /\ f.pc # "idle" => (f.sent = 1 <=> Constructible(client, f))

C3_Witness ==
    \E i \in CallIds :
        /\ calls[i].pc = "done"
        /\ calls[i].err.type = "wrapError"
        /\ calls[i].err.cause = "net.OpError"
        /\ calls[i].sent = 1

\* C4: on every path of the error classifier (body decoded, body not
\* decodable, body not readable) the StatusCode of the APIError is the HTTP
\* status code of the response, whatever status_code the body carries.
C4_StatusCodeFromResponse ==
    \A i \in CallIds :
        LET f == calls[i]
        IN  (f.pc = "done" /\ f.err.type = "APIError") =>
               f.err.StatusCode = f.resp.StatusCode

\* the body carries a status_code of its own that differs from the status
C4_Witness ==
    \E i \in CallIds :
        /\ calls[i].pc = "done"
        /\ calls[i].err.type = "APIError"
        /\ ~calls[i].resp.ReadErr
        /\ UnmarshalAPIError(calls[i].resp.Body).err = "none"
        /\ UnmarshalAPIError(calls[i].resp.Body).val.StatusCode = 418
        /\ calls[i].resp.StatusCode = 404
        /\ calls[i].err.StatusCode = 404

\* C5: for a non-2xx response whose body was read and is not JSON, the call
\* returns an APIError with the status code of the response and a message
\* that contains the text of the body: not a decode error, not a success.
C5_FallbackCarriesBody ==
    \A i \in CallIds :
        LET f == calls[i]
        IN  (/\ f.pc = "done" /\ f.got
             /\ f.resp.StatusCode \notin 200..299
             /\ ~f.resp.ReadErr
             /\ ~ParseJSON(f.resp.Body).ok) =>
               /\ f.result.nil
               /\ f.err.type = "APIError"
               /\ f.err.StatusCode = f.resp.StatusCode
               /\ Contains(f.err.msg, f.resp.Body)
               /\ f.err.msg = <<"HTTP ">> \o Itoa(f.resp.StatusCode) \o <<": ">>
                              \o f.resp.Body

C5_Witness ==
    \E i \in CallIds :
        /\ calls[i].pc = "done"
        /\ calls[i].resp = Response(500, <<"o", "o", "p", "s">>, FALSE)
        /\ calls[i].err.type = "APIError"
        /\ calls[i].err.msg = <<"HTTP ", "5", "0", "0", ": ", "o", "o", "p", "s">>

\* C6: the predicates of an APIError are functions of its stored status
\* code alone: IsNotFound iff 404, IsUnauthorized iff 401, IsForbidden iff
\* 403, IsRateLimited iff 429, IsServerError iff 500..599; so at most one of
\* them is true, and for 404 IsNotFound only.
C6_PredicatesOfStatusCode ==
    \A i \in CallIds :
        LET e    == calls[i].err
            c    == e.StatusCode
            bare == NewAPIError(c, <<>>)
            true == {n \in 1..5 : <<IsNotFound(e), IsUnauthorized(e), IsForbidden(e),
                                    IsRateLimited(e), IsServerError(e)>>[n]}
        IN  e.type = "APIError" =>
               /\ IsNotFound(e)     <=> c = 404
               /\ IsUnauthorized(e) <=> c = 401
               /\ IsForbidden(e)    <=> c = 403
               /\ IsRateLimited(e)  <=> c = 429
               /\ IsServerError(e)  <=> c \in 500..599
               /\ Cardinality(true) <= 1
               /\ c = 404 => true = {1}
               /\ <<IsNotFound(e), IsUnauthorized(e), IsForbidden(e),
                    IsRateLimited(e), IsServerError(e)>>
                  = <<IsNotFound(bare), IsUnauthorized(bare), IsForbidden(bare),
                      IsRateLimited(bare), IsServerError(bare)>>

\* the 404 of the spec's example: {"message":"nf"}, IsNotFound and no other
C6_Witness ==
    \E i \in CallIds :
        /\ calls[i].pc = "done"
        /\ calls[i].err.type = "APIError"
        /\ calls[i].resp.StatusCode = 404
        /\ calls[i].err.msg = <<"n", "f">>
        /\ IsNotFound(calls[i].err)
        /\ ~IsServerError(calls[i].err)

\* an error of the transport kind: what doRequest wraps when httpClient.Do
\* fails, or what handleResponse wraps when the body read fails
TransportError(e) ==
    /\ e.type = "wrapError"
    /\ e.msg[1] \in {"request failed: ", "failed to read response body: "}

\* C7: a call that is inside the transport when its context is cancelled
\* or its deadline passes does not hang: it returns, with a nil result and
\* an error of the transport kind, never an APIError and never a result.
C7_CancelledCallReturns ==
    \A i \in {1} :
        (calls[i].pc = "inflight" /\ calls[i].ctx.err # "none")
          ~> (/\ calls[i].pc = "done"
              /\ calls[i].result.nil
              /\ calls[i].err.type # "APIError"
              /\ TransportError(calls[i].err))

\* the required parameter the options of a call carry for the stub to echo
EchoValue(ep, o) ==
    CASE ep = "MonitorStop" -> o.StopId
      [] ep = "GetRoute"    -> o.Origin
      [] ep = "GetLines"    -> o.StopId
      [] ep = "GetPoint"    -> o.Query

\* every call holds the request built from its own options and, once it
\* returned without error, the result decoded from the response to it
Matched ==
    \A i \in CallIds :
        LET f == calls[i]
        IN  /\ f.pc \in {"inflight", "done"} /\ f.sent = 1 =>
                 /\ ParseURL(f.req.URL).Path = EndpointPath(f.endpoint)
                 /\ ParseQuery(ParseURL(f.req.URL).RawQuery)[EchoKey(f.endpoint)]
                      = <<EchoValue(f.endpoint, f.options)>>
            /\ f.pc = "done" /\ f.got =>
                 /\ f.resp = StubResponse(f.req)
                 /\ f.err.type = "nil"
                 /\ ~f.result.nil
                 /\ f.result.val[EchoField(f.endpoint)] = EchoValue(f.endpoint, f.options)

\* C8: in every interleaving of the calls running on one handle each call
\* gets the result decoded from the response to its own request, and no
\* step of a call changes the base URL, user agent or transport of the
\* handle.
C8_NoCrossTalk == [](Matched) /\ [][client' = client]_vars

\* two calls of the same endpoint, made with different parameters, both
\* returned, each with its own parameter
C8_Witness ==
    /\ calls[1].pc = "done" /\ calls[2].pc = "done"
    /\ calls[1].endpoint = "MonitorStop" /\ calls[2].endpoint = "MonitorStop"
    /\ ~calls[1].result.nil /\ ~calls[2].result.nil
    /\ calls[1].result.val["Name"] = StopIdB
    /\ calls[2].result.val["Name"] = StopIdA

\* C9: a call that obtained a response from the transport has closed its
\* body when it returns, on every exit path: decoded, empty body, decode
\* failure, body read failure, non-2xx.
C9_BodyClosed ==
    \A i \in CallIds :
        (calls[i].pc = "done" /\ calls[i].got) => calls[i].closed

\* the paths of handleResponse by which a call returned
ExitPath(f) ==
    IF f.resp.StatusCode \notin 200..299 THEN "non-2xx"
    ELSE IF f.resp.ReadErr THEN "read failure"
    ELSE IF f.resp.Body = <<>> THEN "empty body"
    ELSE IF f.err.type # "nil" THEN "decode failure"
    ELSE "decoded"

C9_Witness ==
    \E i \in CallIds :
        /\ calls[i].pc = "done" /\ calls[i].got /\ calls[i].closed
        /\ ExitPath(calls[i]) = "decode failure"
        /\ calls[i].err.cause = "SyntaxError"

\* the optional parameters of each endpoint: query key, field, kind
Param(key, field, kind) == [key |-> key, field |-> field, kind |-> kind]

OptionalParams(ep) ==
    CASE ep = "MonitorStop" ->
            {Param("format", "Format", "string"), Param("time", "Time", "string"),
             Param("isarrival", "IsArrival", "bool"), Param("limit", "Limit", "int"),
             Param("shorttermchanges", "ShortTermChanges", "bool"),
             Param("mentzonly", "MentzOnly", "bool")}
      [] ep = "GetRoute" ->
            {Param("format", "Format", "string"),
             Param("isarrivaltime", "IsArrivalTime", "bool"),
             Param("shorttermchanges", "ShortTermChanges", "bool"),
             Param("time", "Time", "string"), Param("via", "Via", "string")}
      [] ep = "GetLines" ->
            {Param("format", "Format", "string")}
      [] ep = "GetPoint" ->
            {Param("format", "Format", "string"), Param("limit", "Limit", "int"),
             Param("stopsOnly", "StopsOnly", "bool"),
             Param("assignedStops", "AssignedStops", "bool"),
             Param("dvb", "Dvb", "bool")}

\* the query string of the request a call sent, and its pairs parsed back
RawQueryOf(f) == ParseURL(f.req.URL).RawQuery
SentQuery(f)  == ParseQuery(RawQueryOf(f))

\* C10: in the query string of the request of every endpoint an optional
\* parameter that is unset (nil) has no key, and an optional boolean that
\* is set has its key with the literal value true or false: an explicit
\* false gives key=false and is not omitted.
C10_UnsetOmittedBoolVerbatim ==
    \A i \in CallIds :
        LET f == calls[i]
        IN  f.sent = 1 =>
              \A p \in OptionalParams(f.endpoint) :
                 LET v == f.options[p.field]
                 IN  /\ ~v.set => <<p.key>> \notin DOMAIN SentQuery(f)
                     /\ (p.kind = "bool" /\ v.set) =>
                          /\ <<p.key>> \in DOMAIN SentQuery(f)
                          /\ SentQuery(f)[<<p.key>>]
                               = <<IF v.v THEN <<"true">> ELSE <<"false">> >>
                          /\ Contains(RawQueryOf(f),
                                <<p.key, "=", IF v.v THEN "true" ELSE "false">>)

\* an explicit false next to an unset boolean, in one request
C10_Witness ==
    \E i \in CallIds :
        /\ calls[i].pc = "inflight"
        /\ calls[i].endpoint = "GetPoint"
        /\ calls[i].options.StopsOnly = Ptr(FALSE)
        /\ calls[i].options.Dvb = NilBool
        /\ calls[i].options.AssignedStops = Ptr(TRUE)
        /\ Contains(RawQueryOf(calls[i]), <<"stopsOnly", "=", "false">>)
        /\ ~Contains(RawQueryOf(calls[i]), <<"dvb">>)

\* C11: in the request of every endpoint an optional string parameter has
\* its key exactly when it is set and not empty, and then with its value; the
\* optional limit has its key exactly when it is set and greater than zero,
\* and then with its decimal text.  A string that is set and empty and a
\* limit that is zero or negative are left out and the call is made all the
\* same: it is not rejected.
C11_EmptyAndNonPositiveOmitted ==
    \A i \in CallIds :
        LET f == calls[i]
        IN  (f.pc # "idle" /\ ~RequiredEmpty(f.endpoint, f.options)) =>
              /\ f.sent = 1
              /\ f.err.type # "errorString"
              /\ \A p \in OptionalParams(f.endpoint) :
                   LET v == f.options[p.field]
                   IN  /\ p.kind = "string" =>
                            /\ <<p.key>> \in DOMAIN SentQuery(f) <=> (v.set /\ v.v # <<>>)
                            /\ (v.set /\ v.v # <<>>) => SentQuery(f)[<<p.key>>] = <<v.v>>
                       /\ p.kind = "int" =>
                            /\ <<p.key>> \in DOMAIN SentQuery(f) <=> (v.set /\ v.v > 0)
                            /\ (v.set /\ v.v > 0) => SentQuery(f)[<<p.key>>] = <<Itoa(v.v)>>

\* a limit of zero and an empty format next to a time that is sent
C11_Witness ==
    \E i \in CallIds :
        /\ calls[i].pc = "inflight"
        /\ calls[i].endpoint = "MonitorStop"
        /\ calls[i].options.Limit = Ptr(0)
        /\ calls[i].options.Format = Ptr(<<>>)
        /\ calls[i].options.Time = Ptr(<<"x", "=">>)
        /\ ~Contains(RawQueryOf(calls[i]), <<"limit">>)
        /\ ~Contains(RawQueryOf(calls[i]), <<"format">>)
        /\ Contains(RawQueryOf(calls[i]), <<"time", "=", "x", "%", "3", "D">>)

\* the pairs the encoder of the endpoint put into url.Values for a call
BuiltQuery(f) == EndpointQuery(f.endpoint, f.options).query

\* C12: for every endpoint and all parameters that pass validation, the
\* query string of the outbound request parses back to exactly the pairs
\* the encoder put in: the same keys, none more and none less, and for each
\* key the one value it was set to, whatever characters the value holds.
C12_QueryRoundTrip ==
    \A i \in CallIds :
        LET f == calls[i]
        IN  f.sent = 1 =>
              /\ DOMAIN SentQuery(f) = {<<k>> : k \in DOMAIN BuiltQuery(f)}
              /\ \A k \in DOMAIN BuiltQuery(f) :
                    /\ Len(BuiltQuery(f)[k]) = 1
                    /\ SentQuery(f)[<<k>>] = BuiltQuery(f)[k]

\* a value made of the characters "+", "%", "#", "/", "?" and "=" went out
\* escaped and came back as it was
C12_Witness ==
    \E i \in CallIds :
        /\ calls[i].pc = "inflight"
        /\ calls[i].endpoint = "GetLines"
        /\ calls[i].options.StopId = StopIdC
        /\ calls[i].options.Format = Ptr(<<"x", "=">>)
        /\ RawQueryOf(calls[i])
             = <<"format", "=", "x", "%", "3", "D", "&", "stopid", "=",
                 "%", "2", "B", "%", "2", "5", "%", "2", "3", "%", "2", "F",
                 "%", "3", "F", "%", "3", "D">>
        /\ SentQuery(calls[i])[<<"stopid">>] = <<StopIdC>>

\* C13: every request an endpoint sends uses the GET method, has no body (and
\* so no Content-Type header) and has the path of its endpoint: /dm for
\* MonitorStop, /tr/trips for GetRoute, /stt/lines for GetLines and
\* /tr/pointfinder for GetPoint, whatever the parameters hold and whatever
\* path the base URL has.
C13_FixedPathAndMethod ==
    \A i \in CallIds :
        LET f == calls[i]
        IN  f.sent = 1 =>
              /\ f.req.Method = "GET"
              /\ ~f.req.HasBody
              /\ "Content-Type" \notin DOMAIN f.req.Header
              /\ ParseURL(f.req.URL).Path =
                    CASE f.endpoint = "MonitorStop" -> <<"/dm">>
                      [] f.endpoint = "GetRoute"    -> <<"/tr/trips">>
                      [] f.endpoint = "GetLines"    -> <<"/stt/lines">>
                      [] f.endpoint = "GetPoint"    -> <<"/tr/pointfinder">>

\* a base URL with a path of its own and a parameter made of "/", "?", "#"
C13_Witness ==
    \E i \in CallIds :
        /\ calls[i].pc = "inflight"
        /\ client.baseURL = <<"http", "://", "stub.test", "/v1", "?", "k", "=", "v">>
        /\ calls[i].endpoint = "GetLines"
        /\ calls[i].options.StopId = StopIdC
        /\ calls[i].req.Method = "GET"
        /\ calls[i].req.URL
             = <<"http", "://", "stub.test", "/stt/lines", "?", "stopid", "=",
                 "%", "2", "B", "%", "2", "5", "%", "2", "3", "%", "2", "F",
                 "%", "3", "F", "%", "3", "D">>

\* the body of a 2xx response is there and is not JSON of the shape of the
\* response struct: not JSON at all, JSON that is no object, or an object
\* with a value of the wrong kind for its field
Undecodable(ep, resp) ==
    /\ resp.StatusCode \in 200..299
    /\ ~resp.ReadErr
    /\ resp.Body # <<>>
    /\ \/ ~ParseJSON(resp.Body).ok
       \/ ParseJSON(resp.Body).v.t \notin {"obj", "null"}
       \/ UnmarshalResponse(ep, resp.Body).err # "none"

\* C14: a call whose 2xx response has a body that is not empty and does not
\* decode into the response struct returns a nil result and the error
\* "failed to unmarshal response: ..." that wraps the error of json.Unmarshal
\* (a syntax error or a type error); the error is not an APIError.
C14_DecodeErrorWrapsCause ==
    \A i \in CallIds :
        LET f == calls[i]
        IN  (f.pc = "done" /\ f.got /\ Undecodable(f.endpoint, f.resp)) =>
              /\ f.result.nil
              /\ f.err.type = "wrapError"
              /\ f.err.type # "APIError"
              /\ f.err.msg[1] = "failed to unmarshal response: "
              /\ f.err.cause = IF ParseJSON(f.resp.Body).ok
                               THEN "UnmarshalTypeError" ELSE "SyntaxError"

\* {"Name":7} for MonitorStop: JSON, but a number where Name is a string
C14_Witness ==
    \E i \in CallIds :
        /\ calls[i].pc = "done"
        /\ calls[i].endpoint = "MonitorStop"
        /\ calls[i].resp = Response(200, <<"{">> \o Q(<<"Name">>) \o <<":", "7", "}">>, FALSE)
        /\ calls[i].result.nil
        /\ calls[i].err.type = "wrapError"
        /\ calls[i].err.cause = "UnmarshalTypeError"

\* C15: a call whose 2xx response has an empty body returns a nil error and
\* the response struct at its zero value: the body is not handed to
\* json.Unmarshal, which would fail on it with a syntax error.
C15_EmptyBodyIsSuccess ==
    \A i \in CallIds :
        LET f == calls[i]
        IN  (/\ f.pc = "done" /\ f.got
             /\ f.resp.StatusCode \in 200..299
             /\ ~f.resp.ReadErr
             /\ f.resp.Body = <<>>) =>
              /\ f.err = NoError
              /\ ~f.result.nil
              /\ f.result.val = ZeroResponse(f.endpoint)
              /\ UnmarshalResponse(f.endpoint, f.resp.Body).err = "SyntaxError"

\* GetPoint answered by 299 and no body: every field of the result is zero
C15_Witness ==
    \E i \in CallIds :
        /\ calls[i].pc = "done"
        /\ calls[i].endpoint = "GetPoint"
        /\ calls[i].resp = Response(299, <<>>, FALSE)
        /\ calls[i].err.type = "nil"
        /\ calls[i].result
             = ResultOf([PointStatus |-> <<>>, Status |-> [Code |-> <<>>, Message |-> <<>>],
                         Points |-> NilSlice, ExpirationTime |-> <<>>])

RECURSIVE KindOK(_, _)
\* the JSON value v has the kind a field of the given kind takes (null is
\* taken by every field): a string, a number, a bool, an object whose
\* members that name a field have the kind of the field, an array whose
\* elements have the kind of the element
KindOK(kind, v) ==
    \/ v.t = "null"
    \/ CASE kind = "string"  -> v.t = "str"
         [] kind = "int"     -> v.t = "num"
         [] kind = "bool"    -> v.t = "bool"
         [] kind = "status"  ->
               /\ v.t = "obj"
               /\ \A j \in 1..Len(v.ks) :
                     FieldFor(v.ks[j], <<"Code", "Message">>) # 0
                        => v.a[j].t \in {"str", "null"}
         [] kind = "strings" -> v.t = "arr" /\ \A j \in 1..Len(v.a) : v.a[j].t \in {"str", "null"}
         [] kind \in DOMAIN PointerBase -> KindOK(PointerBase[kind], v)
         [] kind \in StructNames ->
               /\ v.t = "obj"
               /\ \A j \in 1..Len(v.ks) :
                     LET n == FieldFor(v.ks[j], FieldNames[kind])
                     IN  n # 0 => KindOK(StructFields[kind][n][2], v.a[j])
         [] kind \in DOMAIN SliceElem ->
               /\ v.t = "arr"
               /\ \A j \in 1..Len(v.a) : KindOK(SliceElem[kind], v.a[j])

\* the body is JSON of the shape of the response struct of ep: null, or an
\* object in which every member that names a field has the kind of the field
WellFormedFor(ep, body) ==
    LET p  == ParseJSON(body)
        fs == ResponseFields(ep)
    IN  /\ p.ok
        /\ p.v.t \in {"obj", "null"}
        /\ \A i \in 1..Len(p.v.ks) :
              FieldFor(p.v.ks[i], fs) # 0
                 => KindOK(FieldKind(fs[FieldFor(p.v.ks[i], fs)]), p.v.a[i])

RECURSIVE Agrees(_, _, _)
\* the value got of the given kind is the JSON value v of the body: the
\* same text, number or bool, a pointer to it, a slice of as many items
\* that agree one by one, a struct in which each field a member names
\* agrees with the member and every other field is zero
Agrees(kind, got, v) ==
    CASE v.t = "null"     -> got = ZeroOf(kind)
      [] kind = "string"  -> got = v.s
      [] kind = "int"     -> got = v.n
      [] kind = "bool"    -> got = (v.n = 1)
      [] kind = "status"  ->
            \A j \in 1..Len(v.ks) :
               /\ (v.ks[j] = <<"Code">> /\ v.a[j].t = "str") => got.Code = v.a[j].s
               /\ (v.ks[j] = <<"Message">> /\ v.a[j].t = "str") => got.Message = v.a[j].s
      [] kind = "strings" ->
            /\ ~got.nil
            /\ got.spare = <<>>
            /\ Len(got.items) = Len(v.a)
            /\ \A j \in 1..Len(v.a) : v.a[j].t = "str" => got.items[j] = v.a[j].s
      [] kind \in DOMAIN PointerBase ->
            got.set /\ Agrees(PointerBase[kind], got.v, v)
      [] kind \in StructNames ->
            LET fs == StructFields[kind]
                ns == FieldNames[kind]
            IN  \A n \in 1..Len(fs) :
                   LET ms == {j \in 1..Len(v.ks) : FieldFor(v.ks[j], ns) = n}
                   IN  /\ ms = {} => got[fs[n][1]] = ZeroOf(fs[n][2])
                       /\ Cardinality(ms) = 1 =>
                             Agrees(fs[n][2], got[fs[n][1]],
                                    v.a[CHOOSE j \in ms : TRUE])
      [] kind \in DOMAIN SliceElem ->
            /\ ~got.nil
            /\ got.spare = <<>>
            /\ Len(got.items) = Len(v.a)
            /\ \A j \in 1..Len(v.a) : Agrees(SliceElem[kind], got.items[j], v.a[j])

\* C16: a call whose 2xx response has a body that is JSON of the shape of
\* the response struct returns a nil error and a result in which every field
\* the body names once holds the value the body gives it and every field it
\* does not name is zero (a name the body repeats has no one value); an
\* array without elements gives a slice of length 0 that is not nil, and no
\* error.
C16_DecodedFieldsEqualBody ==
    \A i \in CallIds :
        LET f  == calls[i]
            p  == ParseJSON(f.resp.Body)
            fs == ResponseFields(f.endpoint)
        IN  (/\ f.pc = "done" /\ f.got
             /\ f.resp.StatusCode \in 200..299
             /\ ~f.resp.ReadErr
             /\ f.resp.Body # <<>>
             /\ WellFormedFor(f.endpoint, f.resp.Body)) =>
              /\ f.err = NoError
              /\ ~f.result.nil
              /\ \A k \in 1..Len(p.v.ks) :
                    LET n == FieldFor(p.v.ks[k], fs)
                    IN  (n # 0 /\ \A j \in 1..Len(p.v.ks) :
                                     j # k => FieldFor(p.v.ks[j], fs) # n)
                           => Agrees(FieldKind(fs[n]), f.result.val[fs[n]], p.v.a[k])
              /\ \A n \in 1..Len(fs) :
                    (\A k \in 1..Len(p.v.ks) : FieldFor(p.v.ks[k], fs) # n)
                       => f.result.val[fs[n]] = ZeroOf(FieldKind(fs[n]))

\* the stop monitor answered with a name, a status and no departures
C16_Witness ==
    \E i \in CallIds :
        /\ calls[i].pc = "done"
        /\ calls[i].endpoint = "MonitorStop"
        /\ calls[i].resp.StatusCode = 200
        /\ Contains(calls[i].resp.Body, Q(<<"Departures">>) \o <<":", "[", "]">>)
        /\ calls[i].err.type = "nil"
        /\ calls[i].result
             = ResultOf([Name |-> <<"H", "b", "f">>,
                         Status |-> [Code |-> <<"Ok">>, Message |-> <<>>],
                         Place |-> <<>>, ExpirationTime |-> <<>>,
                         Departures |-> Slice(<<>>)])

ErrorKinds == {"validation", "transport", "API", "decode"}

\* the kind of the error a call returned, by the place it came from: the
\* check of the required fields; doRequest (request construction, the
\* transport, the context) and the read of the body; a non-2xx status; the
\* decoding of a 2xx body
ErrorKind(f) ==
    IF RequiredEmpty(f.endpoint, f.options) THEN "validation"
    ELSE IF ~f.got THEN "transport"
    ELSE IF f.resp.StatusCode \notin 200..299 THEN "API"
    ELSE IF f.resp.ReadErr THEN "transport"
    ELSE "decode"

\* the Go type of the error the code returns for each kind
TypeReturnedFor(kind) ==
    CASE kind = "validation" -> GetLinesQuery(GetLinesParams(<<>>)).err.type
      [] kind = "transport"  -> FailWith(IdleCall, "net.OpError").err.type
      [] kind = "API"        -> HandleErrorResponse(Response(404, <<>>, FALSE)).type
      [] kind = "decode"     ->
            HandleResponseBody("GetLines", Response(200, <<"o", "o", "p", "s">>, FALSE)).err.type

\* C17: every error a call returns has a type of its own kind: it is not a
\* bare value of errors.New or fmt.Errorf, and its type is not the type the
\* code returns for an error of one of the other three kinds, so that the
\* caller can tell validation, transport, API and decode errors apart by
\* type.
C17_ErrorsTypedByKind ==
    \A i \in CallIds :
        LET f == calls[i]
        IN  (f.pc = "done" /\ f.err.type # "nil") =>
              /\ f.err.type \notin {"errorString", "wrapError"}
              /\ \A k \in ErrorKinds \ {ErrorKind(f)} :
                    f.err.type # TypeReturnedFor(k)

\* C18: NewClient returns a handle for every configuration and stores a base
\* URL that does not parse as it is; a call on such a handle that passed
\* validation returns a nil result and the error "invalid base URL: ..."
\* of the dispatcher, and the transport is not invoked: no request is built
\* and no response obtained.
C18_BadBaseURLFailsAtRequest ==
    /\ \E cfg \in Configs :
          /\ client = NewClient(cfg)
          /\ cfg.BaseURL # <<>> => client.baseURL = cfg.BaseURL
    /\ \A i \in CallIds :
          LET f == calls[i]
          IN  (/\ f.pc # "idle"
               /\ client.baseURL = <<"%zz">>
               /\ ~RequiredEmpty(f.endpoint, f.options)) =>
                 /\ f.pc = "done"
                 /\ f.result.nil
                 /\ f.err.type = "wrapError"
                 /\ f.err.msg[1] = "invalid base URL: "
                 /\ f.err.cause = "url.Error"
                 /\ f.sent = 0
                 /\ f.req = NoRequest
                 /\ ~f.got

\* the handle was built with the base URL "%zz" and a valid call on it failed
C18_Witness ==
    \E i \in CallIds :
        /\ client.baseURL = <<"%zz">>
        /\ calls[i].pc = "done"
        /\ calls[i].endpoint = "MonitorStop"
        /\ calls[i].options.StopId = StopIdA
        /\ calls[i].ctx.kind = "Background"
        /\ calls[i].err.msg[1] = "invalid base URL: "
        /\ calls[i].sent = 0

\* the handle the configuration cfg is to give when every absent or invalid
\* value falls back to its default
WithDefaults(cfg) ==
    [baseURL    |-> IF cfg.BaseURL = <<>>
                    THEN <<"https", "://", "webapi.vvo-online.de">> ELSE cfg.BaseURL,
     userAgent  |-> IF cfg.UserAgent = <<>>
                    THEN <<"dvb-go-client/1.0.0">> ELSE cfg.UserAgent,
     httpClient |-> IF cfg.HTTPClient.nil
                    THEN [nil |-> FALSE, custom |-> FALSE,
                          Timeout |-> IF cfg.Timeout <= 0 THEN 30 ELSE cfg.Timeout]
                    ELSE cfg.HTTPClient]

\* C19: the handle NewClient built is the configuration with its defaults
\* filled in: the production base URL for an empty one, the fixed client
\* identifier for an empty user agent, and for a nil transport one built
\* with the timeout, which is 30 seconds when the configured timeout is
\* zero or negative.
C19_DefaultsForAbsentOrInvalid ==
    \E cfg \in Configs :
        /\ client = NewClient(cfg)
        /\ client = WithDefaults(cfg)

\* the positions of the pairs of the caller's headers whose key is the
\* header K in some letter case
PairsFor(K, pairs) == {k \in 1..Len(pairs) : CanonicalKeys[pairs[k][1]] = K}

Last(S) == CHOOSE k \in S : \A j \in S : j <= k

\* C20 as stated: every request the dispatcher sends carries a User-Agent
\* header equal to the user agent of the handle, whatever the Headers of the
\* request descriptor hold.
C20_UserAgentNeverOverridden ==
    \A i \in CallIds :
        LET f == calls[i]
        IN  f.sent = 1 =>
              /\ "User-Agent" \in DOMAIN f.req.Header
              /\ f.req.Header["User-Agent"] = client.userAgent

\* C20 as amended: the dispatcher sets User-Agent to the user agent of the
\* handle first and applies the caller's headers after it, the last write
\* to a header winning: a request carries the user agent of the handle
\* unless Headers has a key that is User-Agent in some letter case, and then
\* it carries the value of the last such key applied.  The same holds for
\* Content-Type, which is application/json for a request with a body unless
\* the caller's headers replace it.
C20_CallerHeadersWriteLast ==
    \A i \in CallIds :
        LET f  == calls[i]
            hs == f.options.Headers
            ua == PairsFor("User-Agent", hs)
            ct == PairsFor("Content-Type", hs)
        IN  (f.sent = 1 /\ f.endpoint = "doRequest") =>
              /\ "User-Agent" \in DOMAIN f.req.Header
              /\ f.req.Header["User-Agent"]
                   = IF ua = {} THEN client.userAgent ELSE hs[Last(ua)][2]
              /\ "Content-Type" \in DOMAIN f.req.Header <=> (f.options.HasBody \/ ct # {})
              /\ "Content-Type" \in DOMAIN f.req.Header =>
                    f.req.Header["Content-Type"]
                      = IF ct = {} THEN <<"application/json">> ELSE hs[Last(ct)][2]
              /\ \A k \in 1..Len(hs) : CanonicalKeys[hs[k][1]] \in DOMAIN f.req.Header

\* the caller passed a lower-case user-agent and the request went out with it
C20_Witness ==
    \E i \in CallIds :
        /\ calls[i].pc = "inflight"
        /\ calls[i].endpoint = "doRequest"
        /\ calls[i].options.Headers = << <<"user-agent", <<"e", "2">>>> >>
        /\ client.userAgent = <<"dvb-go-client/1.0.0">>
        /\ calls[i].req.Header["User-Agent"] = <<"e", "2">>

\* the stage at which the call in frame f met its first failure, "none" when
\* every stage went well; told from the inputs of the call and from what
\* the transport did
FailedStage(c, f) ==
    IF RequiredEmpty(f.endpoint, f.options) THEN "validation"
    ELSE IF c.baseURL = <<"%zz">> \/ f.ctx.kind = "nil" THEN "request construction"
    ELSE IF ~f.got THEN "transport"
    ELSE IF f.resp.StatusCode \notin 200..299 THEN "status classification"
    ELSE IF f.resp.ReadErr THEN "response body read"
    ELSE IF f.resp.Body # <<>> /\ ~WellFormedFor(f.endpoint, f.resp.Body)
         THEN "JSON decoding"
    ELSE "none"

\* the first fragment of the text of the error each stage returns
StagePrefix(c, f, stage) ==
    CASE stage = "validation"           -> FirstEmptyField(f.endpoint, f.options)
      [] stage = "request construction" ->
            IF c.baseURL = <<"%zz">>
            THEN "invalid base URL: " ELSE "failed to create request: "
      [] stage = "transport"            -> "request failed: "
      [] stage = "response body read"   -> "failed to read response body: "
      [] stage = "JSON decoding"        -> "failed to unmarshal response: "

\* C21: a call in which a stage failed (validation, request construction,
\* transport, read of the response body, status classification, JSON
\* decoding) returns the error of that stage and a nil result; it returns
\* a nil error only when no stage failed.  No failure is dropped or turned
\* into a result.
C21_FailuresReturned ==
    \A i \in CallIds :
        LET f     == calls[i]
            stage == FailedStage(client, f)
        IN  f.pc = "done" =>
              /\ stage = "none" <=> f.err.type = "nil"
              /\ stage # "none" =>
                    /\ f.result.nil
                    /\ f.err.type # "nil"
                    /\ IF stage = "status classification"
                       THEN /\ f.err.type = "APIError"
                            /\ f.err.StatusCode = f.resp.StatusCode
                       ELSE /\ f.err.type \in {"errorString", "wrapError"}
                            /\ f.err.msg[1] = StagePrefix(client, f, stage)

\* the body of a 200 response broke off while it was read
C21_Witness ==
    \E i \in CallIds :
        /\ calls[i].pc = "done"
        /\ calls[i].resp = Response(200, <<>>, TRUE)
        /\ calls[i].result.nil
        /\ calls[i].err.type = "wrapError"
        /\ calls[i].err.msg[1] = "failed to read response body: "

\* the values an optional parameter of each kind may take
Alternatives(kind) ==
    CASE kind = "string" -> OptStrings
      [] kind = "bool"   -> OptBools
      [] kind = "int"    -> OptLimits

\* absent (nil), present-empty (the empty string, zero, false) or
\* present-value
CaseOf(kind, x) ==
    IF ~x.set THEN "absent"
    ELSE IF (kind = "string" /\ x.v = <<>>) \/ (kind = "int" /\ x.v = 0)
            \/ (kind = "bool" /\ x.v = FALSE)
         THEN "present-empty"
    ELSE "present-value"

\* the query string the endpoint sends for the options o
QueryStringOf(ep, o) == ValuesEncode(EndpointQuery(ep, o).query)

\* C22 as stated: for every optional parameter of a request, putting the
\* parameter into another of the three cases absent, present-empty and
\* present-value gives another query string.
C22_ThreeCasesDistinct ==
    \A i \in CallIds :
        LET f == calls[i]
        IN  (f.sent = 1 /\ ~f.options.nil) =>
              \A p \in OptionalParams(f.endpoint) :
                 \A alt \in Alternatives(p.kind) :
                    CaseOf(p.kind, alt) # CaseOf(p.kind, f.options[p.field])
                       => QueryStringOf(f.endpoint, [f.options EXCEPT ![p.field] = alt])
                            # RawQueryOf(f)

\* what the query string shows of an optional string or limit: its value
\* when it is set and not empty, greater than zero; nothing otherwise
Shown(kind, x) ==
    IF kind = "string"
    THEN (IF x.set /\ x.v # <<>> THEN [sent |-> TRUE, v |-> x.v]
          ELSE [sent |-> FALSE, v |-> <<>>])
    ELSE (IF x.set /\ x.v > 0 THEN [sent |-> TRUE, v |-> <<x.v>>]
          ELSE [sent |-> FALSE, v |-> <<>>])

\* C22 as amended: the query string tells the three cases apart for the
\* optional booleans only (no key, key=false, key=true).  For an optional
\* string and for the limit, absent and present-empty give the same query
\* string (the key is left out, as it is for a negative limit), and two
\* settings give different query strings exactly when one of them is a
\* non-empty string or a limit above zero that the other is not.
C22_BoolsThreeWayOthersTwoWay ==
    \A i \in CallIds :
        LET f == calls[i]
        IN  (f.sent = 1 /\ ~f.options.nil) =>
              \A p \in OptionalParams(f.endpoint) :
                 \A alt \in Alternatives(p.kind) :
                    LET same == QueryStringOf(f.endpoint, [f.options EXCEPT ![p.field] = alt])
                                  = RawQueryOf(f)
                        cur  == f.options[p.field]
                    IN  IF p.kind = "bool"
                        THEN same <=> alt = cur
                        ELSE same <=> Shown(p.kind, alt) = Shown(p.kind, cur)

\* an empty format and a limit of zero went out like no format and no
\* limit, next to a false that went out as stopsOnly=false
C22_Witness ==
    \E i \in CallIds :
        /\ calls[i].pc = "inflight"
        /\ calls[i].endpoint = "GetPoint"
        /\ calls[i].options.Format = Ptr(<<>>)
        /\ calls[i].options.Limit = Ptr(0)
        /\ calls[i].options.StopsOnly = Ptr(FALSE)
        /\ RawQueryOf(calls[i])
             = QueryStringOf("GetPoint", [calls[i].options EXCEPT !.Format = NilStr,
                                                                  !.Limit = NilInt])
        /\ RawQueryOf(calls[i])
             # QueryStringOf("GetPoint", [calls[i].options EXCEPT !.StopsOnly = NilBool])
        /\ RawQueryOf(calls[i])
             = <<"query", "=", "a", "+", "%", "2", "6", "&", "stopsOnly", "=", "false">>

\* The stages of a call as the frame shows them: sent counts the calls of
\* the transport, got says that the dispatcher returned a response, closed
\* is set by the response decoder and an APIError is built by the error
\* classifier only.
StagesInOrder ==
    \A i \in CallIds :
        LET f == calls[i]
        IN  /\ f.sent > 0 => (f.pc # "idle" /\ ~RequiredEmpty(f.endpoint, f.options))
            /\ f.got => (f.sent = 1 /\ f.pc \in {"reading", "done"})
            /\ f.closed => (f.got /\ f.pc = "done")
            /\ (f.got /\ f.pc = "done") => f.closed
            /\ f.err.type = "APIError" =>
                  (f.closed /\ f.resp.StatusCode \notin 200..299)

\* the steps of a call: the transport is entered in the step that validated
\* the parameters, it hands over a response in a later step, to a call that
\* is inside it, the decoder ends in a step after that, on a call that holds
\* a response, and nothing runs after the call returned
StepsInOrder ==
    \A i \in CallIds :
        /\ (calls[i].sent = 0 /\ calls'[i].sent = 1) =>
              (/\ calls[i].pc = "idle" /\ calls'[i].pc = "inflight"
               /\ ~calls'[i].got /\ ~calls'[i].closed)
        /\ (~calls[i].got /\ calls'[i].got) =>
              (/\ calls[i].pc = "inflight" /\ calls'[i].pc = "reading"
               /\ calls[i].sent = 1 /\ calls'[i].sent = 1 /\ ~calls'[i].closed)
        /\ (~calls[i].closed /\ calls'[i].closed) =>
              (/\ calls[i].pc = "reading" /\ calls[i].got /\ calls'[i].pc = "done"
               /\ calls'[i].resp.StatusCode = calls[i].resp.StatusCode)
        /\ calls[i].pc = "done" => calls'[i] = calls[i]

\* C23: in every call the stages run in the order encode and validate,
\* dispatch, decode: the transport is invoked only after validation passed,
\* the response decoder runs only after the dispatcher returned a response,
\* and the error classifier runs only for a response whose status is
\* outside 200..299.
C23_StageOrder == [](StagesInOrder) /\ [][StepsInOrder]_vars

\* a call that went through all the stages and ended in the classifier
C23_Witness ==
    \E i \in CallIds :
        /\ calls[i].pc = "done"
        /\ calls[i].sent = 1 /\ calls[i].got /\ calls[i].closed
        /\ calls[i].resp.StatusCode = 599
        /\ calls[i].err.type = "APIError"
        /\ ~RequiredEmpty(calls[i].endpoint, calls[i].options)

\* the body names a Status whose Code is the given text
CarriesStatusCode(body, code) ==
    Contains(body, Q(<<"Status">>) \o <<":", "{">> \o Q(<<"Code">>) \o <<":">> \o Q(code))

\* C24: the Status a response body carries is never turned into an error.
\* A 2xx response whose Status.Code reports a failure (ServiceError) gives
\* a nil error and a result that holds that Status; a response with a
\* status outside 200..299 gives an APIError also when its body says Ok.  So
\* whether a call that got a response fails with an APIError depends on
\* the HTTP status alone.
C24_StatusCodeNotInspected ==
    \A i \in CallIds :
        LET f == calls[i]
        IN  (f.pc = "done" /\ f.got /\ ~f.resp.ReadErr) =>
              /\ (/\ f.resp.StatusCode \in 200..299
                  /\ CarriesStatusCode(f.resp.Body, <<"ServiceError">>)) =>
                    /\ f.err = NoError
                    /\ ~f.result.nil
                    /\ f.result.val["Status"].Code = <<"ServiceError">>
              /\ (/\ f.resp.StatusCode \notin 200..299
                  /\ CarriesStatusCode(f.resp.Body, <<"Ok">>)) =>
                    /\ f.err.type = "APIError"
                    /\ f.result.nil

\* the point finder got 200 with the Status ServiceError and returned it
C24_Witness ==
    \E i \in CallIds :
        /\ calls[i].pc = "done"
        /\ calls[i].endpoint = "GetPoint"
        /\ calls[i].resp.StatusCode = 200
        /\ calls[i].err.type = "nil"
        /\ calls[i].result
             = ResultOf([PointStatus |-> <<>>,
                         Status |-> [Code |-> <<"ServiceError">>, Message |-> <<>>],
                         Points |-> Slice(<< <<"p">> >>),
                         ExpirationTime |-> <<>>])

\* C25: a call made with a nil options pointer is not validated: it never
\* returns the error of an empty required field, and when the request can
\* be built (the base URL parses, the context is not nil) it invokes the
\* transport exactly once with the path of its endpoint and an empty query
\* string, the URL having no "?" at all.
C25_NilOptionsDispatched ==
    \A i \in CallIds :
        LET f == calls[i]
        IN  (f.pc # "idle" /\ f.options.nil) =>
              /\ f.err.type # "errorString"
              /\ (client.baseURL # <<"%zz">> /\ f.ctx.kind # "nil") =>
                    /\ f.sent = 1
                    /\ f.req.Method = "GET"
                    /\ ParseURL(f.req.URL).Path = EndpointPath(f.endpoint)
                    /\ ParseURL(f.req.URL).RawQuery = <<>>
                    /\ ~Contains(f.req.URL, <<"?">>)
              /\ (client.baseURL = <<"%zz">> \/ f.ctx.kind = "nil") =>
                    (f.sent = 0 /\ f.err.type = "wrapError")

\* GetRoute(ctx, nil) on the default handle: the bare URL of the endpoint
C25_Witness ==
    \E i \in CallIds :
        /\ calls[i].pc = "inflight"
        /\ calls[i].endpoint = "GetRoute"
        /\ calls[i].options.nil
        /\ calls[i].sent = 1
        /\ calls[i].req.URL = <<"https", "://", "webapi.vvo-online.de", "/tr/trips">>

\* the outcomes of a call that has returned
Outcome(f) ==
    IF RequiredEmpty(f.endpoint, f.options) THEN "validation failure"
    ELSE IF ~f.got THEN "transport failure"
    ELSE IF f.resp.StatusCode \notin 200..299 THEN "non-2xx"
    ELSE IF f.resp.ReadErr THEN "read failure"
    ELSE IF f.resp.Body = <<>> THEN "2xx with empty body"
    ELSE IF WellFormedFor(f.endpoint, f.resp.Body) THEN "2xx with valid body"
    ELSE "decode failure"

\* C26: a call that has returned gave its caller exactly one of a result
\* that is not nil and an error that is not nil, never both and never
\* neither: the result for a 2xx response with an empty or a valid body, the
\* error for every other outcome.
C26_ResultXorError ==
    \A i \in CallIds :
        LET f == calls[i]
        IN  f.pc = "done" =>
              /\ ~f.result.nil \/ f.err.type # "nil"
              /\ ~(~f.result.nil /\ f.err.type # "nil")
              /\ ~f.result.nil <=>
                    Outcome(f) \in {"2xx with empty body", "2xx with valid body"}

\* the stop monitor got 200 and no body: a result, the zero struct, no error
C26_Witness ==
    \E i \in CallIds :
        /\ calls[i].pc = "done"
        /\ calls[i].endpoint = "MonitorStop"
        /\ calls[i].resp = Response(200, <<>>, FALSE)
        /\ Outcome(calls[i]) = "2xx with empty body"
        /\ ~calls[i].result.nil
        /\ calls[i].err.type = "nil"

\* the units of a text
Units(text) == {text[k] : k \in 1..Len(text)}

\* C27: the URL of a request the dispatcher built has the scheme and the
\* host of the base URL and the path of the request descriptor in place of
\* the path of the base URL; when the descriptor has a query (empty or
\* not) the query string is the encoding of that query, in place of the
\* query string of the base URL, and when its query is nil the query string
\* of the base URL stays.  So no part of the path of the base URL is in the
\* outbound URL, and no key or value of its query string when the descriptor
\* has a query (the "=" of a pair is in every query string).
C27_BasePathAndQueryOverwritten ==
    \A i \in CallIds :
        LET f    == calls[i]
            base == ParseURL(client.baseURL)
            out  == ParseURL(f.req.URL)
        IN  f.sent = 1 =>
              /\ out.Scheme = base.Scheme
              /\ out.Host = base.Host
              /\ out.Path = f.options.Path
              /\ Units(f.req.URL) \cap Units(base.Path) = {}
              /\ ~f.options.NilQuery =>
                    /\ out.RawQuery = ValuesEncode(f.options.Query)
                    /\ Units(f.req.URL) \cap Units(base.RawQuery) \subseteq {"="}
              /\ f.options.NilQuery => out.RawQuery = base.RawQuery

\* a base URL with the path /v1 and the query k=v, and a descriptor with an
\* empty query that is not nil: neither is in the URL of the request
C27_Witness ==
    \E i \in CallIds :
        /\ calls[i].pc = "inflight"
        /\ client.baseURL = <<"http", "://", "stub.test", "/v1", "?", "k", "=", "v">>
        /\ calls[i].options.Path = <<"/x">>
        /\ ~calls[i].options.NilQuery
        /\ calls[i].options.Query = EmptyValues
        /\ calls[i].req.URL = <<"http", "://", "stub.test", "/x">>

\* the body is JSON, null or an object, and no member of it has the key
\* "message" in any letter case
NoMessageField(body) ==
    LET p == ParseJSON(body)
    IN  /\ p.ok
        /\ \/ p.v.t = "null"
           \/ /\ p.v.t = "obj"
              /\ \A k \in 1..Len(p.v.ks) : ~EqualFold(<<"message">>, p.v.ks[k])

\* fmt.Sprintf("HTTP %d: %s", resp.StatusCode, string(body))
GenericMessage(resp) ==
    <<"HTTP ">> \o Itoa(resp.StatusCode) \o <<": ">> \o resp.Body

\* C28: a call that got a response with a status outside 200..299 and a body
\* that decodes into an APIError and has no message member ({} or null, or
\* an object of other members) returns an *APIError with the status code of
\* the response and the empty message; and an error whose message is "HTTP
\* <status>: <body>" is returned only for a body that json.Unmarshal
\* rejects.
C28_NoMessageGivesEmptyMessage ==
    \A i \in CallIds :
        LET f == calls[i]
        IN  (/\ f.pc = "done"
             /\ f.got
             /\ f.resp.StatusCode \notin 200..299
             /\ ~f.resp.ReadErr) =>
               /\ (/\ NoMessageField(f.resp.Body)
                   /\ UnmarshalAPIError(f.resp.Body).err = "none") =>
                     /\ f.result.nil
                     /\ f.err.type = "APIError"
                     /\ f.err.StatusCode = f.resp.StatusCode
                     /\ f.err.msg = <<>>
               /\ f.err.msg = GenericMessage(f.resp) =>
                     UnmarshalAPIError(f.resp.Body).err # "none"

\* 404 with the body {} and 500 with the body null, each an *APIError with
\* the empty message
C28_Witness ==
    \E i \in CallIds :
        /\ calls[i].pc = "done"
        /\ \/ /\ calls[i].resp = Response(404, <<"{", "}">>, FALSE)
              /\ calls[i].err = NewAPIError(404, <<>>)
           \/ /\ calls[i].resp = Response(500, <<"null">>, FALSE)
              /\ calls[i].err = NewAPIError(500, <<>>)

\* cfg is a configuration the handle c may come from: it has the base URL
\* and the user agent of c, or none where c has the default
ConfigOf(c, cfg) ==
    /\ c.baseURL = IF cfg.BaseURL = <<>>
                   THEN <<"https", "://", "webapi.vvo-online.de">> ELSE cfg.BaseURL
    /\ c.userAgent = IF cfg.UserAgent = <<>>
                     THEN <<"dvb-go-client/1.0.0">> ELSE cfg.UserAgent

\* C29: the handle holds the transport of its configuration as it was
\* supplied, with the timeout that transport came with and not
\* Config.Timeout, and a transport NewClient built itself has Config.Timeout,
\* or 30 seconds when that is zero; so a call through a supplied transport
\* without a timeout never fails with the timeout of http.Client.
C29_SuppliedTransportUnchanged ==
    /\ \E cfg \in Configs :
          /\ ConfigOf(client, cfg)
          /\ ~cfg.HTTPClient.nil => client.httpClient = cfg.HTTPClient
          /\ cfg.HTTPClient.nil =>
                client.httpClient =
                    [nil |-> FALSE, custom |-> FALSE,
                     Timeout |-> IF cfg.Timeout = 0 THEN 30 ELSE cfg.Timeout]
    /\ \A i \in CallIds :
          (client.httpClient.custom /\ client.httpClient.Timeout = 0) =>
              calls[i].err.cause # "http.Client.Timeout"

\* a handle made with a transport of no timeout and Config.Timeout 5, and a
\* call through it that the transport failed
C29_Witness ==
    \E i \in CallIds :
        /\ \E cfg \in Configs :
              /\ ConfigOf(client, cfg)
              /\ ~cfg.HTTPClient.nil
              /\ cfg.Timeout = 5
              /\ cfg.HTTPClient.Timeout = 0
        /\ client.httpClient = [nil |-> FALSE, custom |-> TRUE, Timeout |-> 0]
        /\ calls[i].pc = "done"
        /\ calls[i].sent = 1
        /\ calls[i].err.cause = "net.OpError"

=============================================================================
